---- MODULE Spec2Model ----
(***************************************************************************)
(* Model of the document store layer of mcp-document-server:              *)
(*   - VectorStoreFactory (services/vector-store-factory.ts)               *)
(*   - MockVectorStore    (services/vector-store.ts)                       *)
(*   - PostgresVectorStore(services/postgres-vector-store.ts)              *)
(*   - QdrantVectorStore  (services/qdrant-vector-store.ts)                *)
(* Each part has its own specification over its own variables; the other  *)
(* variables stay at their initial value.                                  *)
(***************************************************************************)
EXTENDS Integers, Sequences, FiniteSets, TLC

VARIABLES
  \* ---- VectorStoreFactory ----
  instance,      \* VectorStoreFactory.instance: 0 (null) or a store id
  stores,        \* every store constructed so far: id -> its state
  fpc,           \* per caller: where its create()/close() call is suspended
  flocal,        \* per caller: the local `store` of create(), or the store close() awaits
  fres,          \* per caller: outcome of its last settled create()
  epochStores,   \* history: stores constructed since the last close()/reset()
  epochReturned, \* history: stores returned by create() since the last close()/reset()
  \* ---- one vector store instance ----
  storeType,     \* config.database.type, which selects the class of the store
  documents,     \* MockVectorStore.documents (array)
  rows,          \* PostgresVectorStore: the committed rows of table `documents`
  points,        \* QdrantVectorStore: the points of collection `documents`
  ret,           \* the last settled call on the store: its arguments and outcome
  \* ---- one addDocuments call, statement by statement ----
  tx,            \* PostgresVectorStore.addDocuments: the call and its pooled client
  qb,            \* QdrantVectorStore.addDocuments: the call and its upsert requests
  \* ---- the three stores side by side, given the same calls ----
  apiKey,        \* is config.openai.apiKey set
  pgSchema,      \* PostgreSQL: the extension, the table `documents`, its indexes
  qdCollection,  \* Qdrant: the collection `documents`
  calls,         \* the last call given to the three stores and its three outcomes
  \* ---- DocumentScraper.chunkDocument ----
  chunker,       \* one chunkDocument call: its arguments and, once made, its result
  \* ---- EmbeddingService ----
  emb,           \* one EmbeddingService, its one call and the requests of that call
  \* ---- DocumentService ----
  svc,           \* one queryDocuments call: its request, its searches, its response
  \* ---- the HTTP server (server/app.ts) ----
  http,         \* one request on its way through the hooks, its route and the error handler
  \* ---- the add-source command (cli) ----
  ingest,       \* the runs of add-source on one page and the documents they stored
  \* ---- QdrantVectorStore.listPackages / listVersions page by page ----
  scroll         \* the scroll loop of one listPackages or listVersions call

factoryVars == <<instance, stores, fpc, flocal, fres, epochStores, epochReturned>>
storeVars == <<storeType, documents, rows, points, ret>>
stepVars == <<tx, qb>>
backendVars == <<apiKey, pgSchema, qdCollection, calls>>
chunkVars == <<chunker>>
embedVars == <<emb>>
queryVars == <<svc>>
serverVars == <<http>>
ingestVars == <<ingest>>
scrollVars == <<scroll>>
serviceVars == <<chunkVars, embedVars, queryVars, serverVars, ingestVars, scrollVars>>
auxVars == <<backendVars, serviceVars>>
nonChunkVars == <<factoryVars, storeVars, stepVars, backendVars, embedVars, queryVars, serverVars, ingestVars, scrollVars>>
nonEmbedVars == <<factoryVars, storeVars, stepVars, backendVars, chunkVars, queryVars, serverVars, ingestVars, scrollVars>>
nonQueryVars == <<factoryVars, storeVars, stepVars, backendVars, chunkVars, embedVars, serverVars, ingestVars, scrollVars>>
nonServerVars == <<factoryVars, storeVars, stepVars, backendVars, chunkVars, embedVars, queryVars, ingestVars, scrollVars>>
nonStoreIngestVars == <<factoryVars, stepVars, backendVars, chunkVars, embedVars, queryVars, serverVars, scrollVars>>
nonIngestVars == <<factoryVars, storeVars, stepVars, backendVars, chunkVars, embedVars, queryVars, serverVars, scrollVars>>
nonScrollVars == <<factoryVars, storeVars, stepVars, backendVars, chunkVars, embedVars, queryVars, serverVars, ingestVars>>

nonFactoryVars == <<storeVars, stepVars, auxVars>>
nonStoreVars == <<factoryVars, stepVars, auxVars>>
nonStepVars == <<factoryVars, auxVars>>

vars == <<factoryVars, storeVars, stepVars, auxVars>>

(***************************************************************************)
(* Bounds                                                                  *)
(***************************************************************************)
NumCallers == 2
MaxStores == 2      \* stores constructed in SpecFactory
MaxDocs == 6       \* documents held by the in-memory store
MaxBatch == 2      \* length of the array passed to addDocuments (Spec, SpecPgTx)
MaxBatchDocs == 201 \* length of the array passed to addDocuments in SpecQdrantBatch
MaxEachDocs == 3   \* documents added to the stores in SpecBackends
MaxText == 8       \* length of a one-line text given to chunkDocument or chunkText
MaxSectionText == 2 \* length of the first line of a two-line text given to chunkDocument
MaxEmbedText == 6  \* length of the text given to embed
MaxEmbedTexts == 3 \* length of the array given to batchEmbed
MaxResults == 6    \* length of the array a store's search resolves with (SpecQuery)
MaxRuns == 2       \* runs of add-source on one page (SpecIngest)
MaxUuids == 4      \* ids that uuidv4() draws from (SpecIngest)

Callers == 1..NumCallers

(***************************************************************************)
(* VectorStoreFactory                                                      *)
(***************************************************************************)
\* enum VectorStoreType plus a value outside the enum
VectorStoreType == {"mock", "sqlite", "postgres", "qdrant"}
TypeInputs == VectorStoreType \cup {"unsupported"}

\* the switch of create(): which class is constructed for a store type
StoreClass(type) ==
  CASE type = "postgres" -> "PostgresVectorStore"
    [] type = "qdrant"   -> "QdrantVectorStore"
    [] type = "sqlite"   -> "MockVectorStore"
    [] type = "mock"     -> "MockVectorStore"
    [] OTHER             -> "none"

NoResult == [kind |-> "none", store |-> 0]
Returned(s) == [kind |-> "returned", store |-> s]
Rejected == [kind |-> "rejected", store |-> 0]

FactoryIdle ==
  /\ instance = 0
  /\ stores = << >>
  /\ fpc = [c \in Callers |-> "idle"]
  /\ flocal = [c \in Callers |-> 0]
  /\ fres = [c \in Callers |-> NoResult]
  /\ epochStores = {}
  /\ epochReturned = {}

\* create(): `if (this.instance) return this.instance;`
CreateCached(c) ==
  /\ UNCHANGED nonFactoryVars
  /\ fpc[c] = "idle"
  /\ instance # 0
  /\ fres' = [fres EXCEPT ![c] = Returned(instance)]
  /\ epochReturned' = epochReturned \cup {instance}
  /\ UNCHANGED <<instance, stores, fpc, flocal, epochStores>>

\* create(): `const storeType = type || config.database.type` with no
\* argument, as every caller in the repository calls it; the switch hits
\* `default: throw new Error('Unsupported ...')`
CreateUnsupported(c) ==
  /\ UNCHANGED nonFactoryVars
  /\ fpc[c] = "idle"
  /\ instance = 0
  /\ StoreClass(storeType) = "none"
  /\ fres' = [fres EXCEPT ![c] = Rejected]
  /\ UNCHANGED <<instance, stores, fpc, flocal, epochStores, epochReturned>>

\* create(): instance is null, a store is constructed and initialize() is
\* called; the call suspends at `await store.initialize()`
CreateConstruct(c) ==
  /\ UNCHANGED nonFactoryVars
  /\ fpc[c] = "idle"
  /\ instance = 0
  /\ Len(stores) < MaxStores
  /\ StoreClass(storeType) # "none"
  /\ stores' = Append(stores, "initializing")
  /\ flocal' = [flocal EXCEPT ![c] = Len(stores) + 1]
  /\ fpc' = [fpc EXCEPT ![c] = "awaitInit"]
  /\ fres' = [fres EXCEPT ![c] = NoResult]
  /\ epochStores' = epochStores \cup {Len(stores) + 1}
  /\ UNCHANGED <<instance, epochReturned>>

\* create(): initialize() resolved; `this.instance = store; return store;`
CreateInitialized(c) ==
  /\ UNCHANGED nonFactoryVars
  /\ fpc[c] = "awaitInit"
  /\ stores' = [stores EXCEPT ![flocal[c]] =
                  IF @ = "initializing" THEN "initialized" ELSE @]
  /\ instance' = flocal[c]
  /\ fres' = [fres EXCEPT ![c] = Returned(flocal[c])]
  /\ epochReturned' = epochReturned \cup {flocal[c]}
  /\ fpc' = [fpc EXCEPT ![c] = "idle"]
  /\ flocal' = [flocal EXCEPT ![c] = 0]
  /\ UNCHANGED epochStores

\* Faulty variant of CreateInitFailed that matches a create() which assigns
\* this.instance before it awaits initialize()
CreateInitFailedCached(c) ==
  /\ UNCHANGED nonFactoryVars
  /\ fpc[c] = "awaitInit"
  /\ StoreClass(storeType) # "MockVectorStore"
  /\ stores' = [stores EXCEPT ![flocal[c]] = "failed"]
  /\ instance' = flocal[c]
  /\ fres' = [fres EXCEPT ![c] = Rejected]
  /\ fpc' = [fpc EXCEPT ![c] = "idle"]
  /\ flocal' = [flocal EXCEPT ![c] = 0]
  /\ UNCHANGED <<epochStores, epochReturned>>

\* create(): initialize() rejected (a database backend that cannot be
\* reached); the error propagates and nothing is cached.  The mock store's
\* initialize() has an empty body and cannot fail.
CreateInitFailed(c) ==
  /\ UNCHANGED nonFactoryVars
  /\ fpc[c] = "awaitInit"
  /\ StoreClass(storeType) # "MockVectorStore"
  /\ stores' = [stores EXCEPT ![flocal[c]] = "failed"]
  /\ fres' = [fres EXCEPT ![c] = Rejected]
  /\ fpc' = [fpc EXCEPT ![c] = "idle"]
  /\ flocal' = [flocal EXCEPT ![c] = 0]
  /\ UNCHANGED <<instance, epochStores, epochReturned>>

\* close(): `if (this.instance) { await this.instance.close(); ...`
CloseStart(c) ==
  /\ UNCHANGED nonFactoryVars
  /\ fpc[c] = "idle"
  /\ instance # 0
  /\ stores' = [stores EXCEPT ![instance] = "closing"]
  /\ flocal' = [flocal EXCEPT ![c] = instance]
  /\ fpc' = [fpc EXCEPT ![c] = "awaitClose"]
  /\ UNCHANGED <<instance, fres, epochStores, epochReturned>>

\* close(): the store's close() resolved; `this.instance = null;`
CloseDone(c) ==
  /\ UNCHANGED nonFactoryVars
  /\ fpc[c] = "awaitClose"
  /\ stores' = [stores EXCEPT ![flocal[c]] = "closed"]
  /\ instance' = 0
  /\ fpc' = [fpc EXCEPT ![c] = "idle"]
  /\ flocal' = [flocal EXCEPT ![c] = 0]
  /\ epochStores' = {}
  /\ epochReturned' = {}
  /\ UNCHANGED fres

\* reset(): `this.instance = null;`
Reset ==
  /\ UNCHANGED nonFactoryVars
  /\ instance # 0
  /\ instance' = 0
  /\ epochStores' = {}
  /\ epochReturned' = {}
  /\ UNCHANGED <<stores, fpc, flocal, fres>>

FactoryNext ==
  \/ \E c \in Callers : CreateCached(c)
  \/ \E c \in Callers : CreateUnsupported(c)
  \/ \E c \in Callers : CreateConstruct(c)
  \/ \E c \in Callers : CreateInitialized(c)
  \/ \E c \in Callers : CreateInitFailed(c)
  \/ \E c \in Callers : CloseStart(c)
  \/ \E c \in Callers : CloseDone(c)
  \/ Reset

(***************************************************************************)
(* Strings.  Text (content, query) is a sequence of one-character strings  *)
(* so that toLowerCase() and includes() can be computed.  Package and      *)
(* version names are TLA+ strings; StrOrd gives their position in the      *)
(* order that Array.prototype.sort(), localeCompare() and SQL ORDER BY     *)
(* agree on for these names (digits, dots and lower-case letters).         *)
(***************************************************************************)
Absent == "<undefined>"          \* an optional string that is not supplied

\* JavaScript truthiness of an optional string: undefined and "" are falsy
Truthy(str) == str # Absent /\ str # ""

\* The alphabet of the texts used: the letters A, B, a, b, c and, written
\* "S", "s" and "z", GREEK CAPITAL LETTER SIGMA (U+03A3), GREEK SMALL LETTER
\* SIGMA (U+03C3) and GREEK SMALL LETTER FINAL SIGMA (U+03C2).
\* The lower-case mapping of one letter (UnicodeData.txt)
LowerChar(ch) ==
  CASE ch = "A" -> "a"
    [] ch = "B" -> "b"
    [] ch = "S" -> "s"
    [] OTHER    -> ch

\* String.prototype.toLowerCase: the mapping of each letter, and the
\* Final_Sigma rule of SpecialCasing.txt, by which a capital sigma that
\* follows a cased letter and is followed by none becomes a final sigma
\* (every character of the alphabet is a cased letter)
ToLowerCase(text) ==
  [i \in 1..Len(text) |->
     IF text[i] = "S" /\ i > 1 /\ i = Len(text) THEN "z" ELSE LowerChar(text[i])]

\* String.prototype.includes
Includes(text, needle) ==
  \E i \in 0..(Len(text) - Len(needle)) :
    \A j \in 1..Len(needle) : text[i + j] = needle[j]

StrOrd(str) ==
  CASE str = ""       -> 0
    [] str = "14.2.1" -> 1
    [] str = "14.2.2" -> 2
    [] str = "18.3.0" -> 3
    [] str = "next"   -> 4
    [] str = "react"  -> 5
    [] OTHER          -> 6

(***************************************************************************)
(* Sequences                                                               *)
(***************************************************************************)
\* Array.prototype.filter
RECURSIVE SelectSeqBy(_, _)
SelectSeqBy(s, keep) ==
  IF s = << >> THEN << >>
  ELSE (IF keep[1] THEN <<Head(s)>> ELSE << >>)
       \o SelectSeqBy(Tail(s), Tail(keep))

\* A stable sort (Array.prototype.sort with a comparator is stable) of the
\* sequence s by ascending integer key, key[i] being the key of s[i].
RECURSIVE StableSort(_, _)
StableSort(s, key) ==
  IF Len(s) <= 1 THEN [seq |-> s, key |-> key]
  ELSE LET n == Len(s)
           r == StableSort(SubSeq(s, 1, n - 1), SubSeq(key, 1, n - 1))
           m == Cardinality({i \in 1..(n - 1) : r.key[i] <= key[n]})
       IN [seq |-> SubSeq(r.seq, 1, m) \o <<s[n]>> \o SubSeq(r.seq, m + 1, n - 1),
           key |-> SubSeq(r.key, 1, m) \o <<key[n]>> \o SubSeq(r.key, m + 1, n - 1)]

\* Array.prototype.slice(0, n)
Slice(s, n) == SubSeq(s, 1, IF n < Len(s) THEN n ELSE Len(s))

\* The distinct elements of s in order of first occurrence (the iteration
\* order of a Map or Set that the elements were added to in order)
RECURSIVE InsertionOrder(_)
InsertionOrder(s) ==
  IF s = << >> THEN << >>
  ELSE LET r == InsertionOrder(SubSeq(s, 1, Len(s) - 1))
           x == s[Len(s)]
       IN IF \E i \in 1..Len(r) : r[i] = x THEN r ELSE Append(r, x)

Range(s) == {s[i] : i \in 1..Len(s)}

\* The elements of a finite set of records with distinct ids, by ascending id
RECURSIVE ById(_)
ById(S) ==
  IF S = {} THEN << >>
  ELSE LET x == CHOOSE y \in S : \A z \in S : y.id <= z.id
       IN <<x>> \o ById(S \ {x})

(***************************************************************************)
(* Documents (interface VectorDocument).  The embedding and the optional   *)
(* url, title and section are carried by no operation modelled here.       *)
(***************************************************************************)
Doc(id, content, package, version) ==
  [id |-> id, content |-> content,
   metadata |-> [package |-> package, version |-> version]]

\* the documents that callers add
DocPool ==
  { Doc(1, <<"A", "b">>, "next", "14.2.2"),
    Doc(2, <<"c", "S">>, "next", "14.2.1"),
    Doc(3, <<"B">>, "react", "18.3.0") }

Packages == {"next", "react"}
Versions == {"14.2.1", "14.2.2", "18.3.0"}

RECURSIVE SeqsUpTo(_, _)
SeqsUpTo(S, n) ==
  IF n = 0 THEN {<< >>}
  ELSE LET shorter == SeqsUpTo(S, n - 1)
       IN shorter \cup {Append(s, x) : s \in {t \in shorter : Len(t) = n - 1}, x \in S}

(***************************************************************************)
(* SearchOptions                                                           *)
(***************************************************************************)
DefaultLimit == 5

\* limit 0 stands for an absent limit: `options.limit || 5` treats both alike
SearchInputs ==
  [query : {<<"B">>, <<"S">>},
   package : {Absent, "", "next"},
   version : {Absent, "14.2.2"},
   limit : {0, 1}]

\* `options.limit || 5`
Limit(options) == IF options.limit # 0 THEN options.limit ELSE DefaultLimit

\* the scores Math.random() * 0.5 + 0.5 can give, in hundredths
MockScores == {50, 99}

\* a DocumentResult
Result(doc, score) == [content |-> doc.content, score |-> score, metadata |-> doc.metadata]

(***************************************************************************)
(* The record of the last settled call                                     *)
(***************************************************************************)
NoOptions == [query |-> << >>, package |-> Absent, version |-> Absent, limit |-> 0]

NoCall ==
  [op |-> "none", options |-> NoOptions, pkg |-> Absent, ver |-> Absent,
   err |-> "none", results |-> << >>, packages |-> << >>, versions |-> << >>,
   before |-> << >>]

PackageInputs == Packages \cup {"vue"}

(***************************************************************************)
(* MockVectorStore                                                         *)
(***************************************************************************)
\* search(): the two `filtered = filtered.filter(...)` statements
MockFilter(docs, options) ==
  LET byPackage ==
        IF Truthy(options.package)
        THEN SelectSeqBy(docs, [i \in 1..Len(docs) |->
                                  docs[i].metadata.package = options.package])
        ELSE docs
  IN IF Truthy(options.version)
     THEN SelectSeqBy(byPackage, [i \in 1..Len(byPackage) |->
                                    byPackage[i].metadata.version = options.version])
     ELSE byPackage

\* Faulty variant of MockMatch: the content is not lower-cased
MockMatchCaseSensitive(docs, options) ==
  LET query == ToLowerCase(options.query)
  IN SelectSeqBy(docs, [i \in 1..Len(docs) |-> Includes(docs[i].content, query)])

\* search(): `.filter(doc => doc.content.toLowerCase().includes(query))`
MockMatch(docs, options) ==
  LET query == ToLowerCase(options.query)
  IN SelectSeqBy(docs, [i \in 1..Len(docs) |->
                          Includes(ToLowerCase(docs[i].content), query)])

\* Faulty variant of MockSortByScore: the comparator a.score - b.score
MockSortByScoreAscending(results) ==
  StableSort(results, [i \in 1..Len(results) |-> results[i].score]).seq

\* search(): `.sort((a, b) => b.score - a.score)`
MockSortByScore(results) ==
  StableSort(results, [i \in 1..Len(results) |-> 0 - results[i].score]).seq

\* search(): `.slice(0, options.limit || 5)`
MockSlice(results, options) == Slice(results, Limit(options))

\* search(), score[i] being the value Math.random() gives for the i-th match
MockSearchResult(docs, options, score) ==
  LET matched == MockMatch(MockFilter(docs, options), options)
      scored == [i \in 1..Len(matched) |-> Result(matched[i], score[i])]
  IN MockSlice(MockSortByScore(scored), options)

\* listPackages(): `versions: Array.from(versions).sort()`
MockSortVersions(versions) ==
  StableSort(versions, [i \in 1..Len(versions) |-> StrOrd(versions[i])]).seq

\* Faulty variant of MockListPackagesResult: versions kept in an array, not a Set
MockListPackagesRepeating(docs) ==
  LET names == InsertionOrder([i \in 1..Len(docs) |-> docs[i].metadata.package])
      versionsOf(name) ==
        LET mine == SelectSeqBy(docs, [i \in 1..Len(docs) |->
                                         docs[i].metadata.package = name])
        IN [i \in 1..Len(mine) |-> mine[i].metadata.version]
  IN [i \in 1..Len(names) |->
        [name |-> names[i], versions |-> MockSortVersions(versionsOf(names[i]))]]

\* listPackages(): the entries of packageMap in insertion order
MockListPackagesResult(docs) ==
  LET names == InsertionOrder([i \in 1..Len(docs) |-> docs[i].metadata.package])
      versionsOf(name) ==
        LET mine == SelectSeqBy(docs, [i \in 1..Len(docs) |->
                                         docs[i].metadata.package = name])
        IN InsertionOrder([i \in 1..Len(mine) |-> mine[i].metadata.version])
  IN [i \in 1..Len(names) |->
        [name |-> names[i], versions |-> MockSortVersions(versionsOf(names[i]))]]

\* Faulty variant of MockListVersionsResult: the count is never incremented
MockListVersionsCountOnce(docs, packageName) ==
  LET mine == SelectSeqBy(docs, [i \in 1..Len(docs) |->
                                   docs[i].metadata.package = packageName])
      vs == InsertionOrder([i \in 1..Len(mine) |-> mine[i].metadata.version])
  IN [i \in 1..Len(vs) |-> [version |-> vs[i], doc_count |-> 1]]

\* listVersions(): the entries of the `versions` map in insertion order
MockListVersionsResult(docs, packageName) ==
  LET mine == SelectSeqBy(docs, [i \in 1..Len(docs) |->
                                   docs[i].metadata.package = packageName])
      vs == InsertionOrder([i \in 1..Len(mine) |-> mine[i].metadata.version])
  IN [i \in 1..Len(vs) |->
        [version |-> vs[i],
         doc_count |-> Cardinality({j \in 1..Len(mine) : mine[j].metadata.version = vs[i]})]]

\* Faulty variant of MockDeleteResult: every version of the package goes
MockDeleteWholePackage(docs, packageName, version) ==
  SelectSeqBy(docs, [i \in 1..Len(docs) |-> ~(docs[i].metadata.package = packageName)])

\* deletePackageVersion(): the filter that keeps the other documents
MockDeleteResult(docs, packageName, version) ==
  SelectSeqBy(docs, [i \in 1..Len(docs) |->
                       ~(docs[i].metadata.package = packageName
                         /\ docs[i].metadata.version = version)])

\* addDocument(doc): `this.documents.push(doc)`
MockAddDocument ==
  /\ storeType = "mock"
  /\ ret = NoCall
  /\ Len(documents) < MaxDocs
  /\ \E doc \in DocPool : documents' = Append(documents, doc)
  /\ ret' = [NoCall EXCEPT !.op = "addDocument"]
  /\ UNCHANGED <<storeType, rows, points>>
  /\ UNCHANGED nonStoreVars

\* addDocuments(docs): `this.documents.push(...docs)`
MockAddDocuments ==
  /\ storeType = "mock"
  /\ ret = NoCall
  /\ \E docs \in SeqsUpTo(DocPool, MaxBatch) :
       /\ Len(documents) + Len(docs) <= MaxDocs
       /\ documents' = documents \o docs
  /\ ret' = [NoCall EXCEPT !.op = "addDocuments"]
  /\ UNCHANGED <<storeType, rows, points>>
  /\ UNCHANGED nonStoreVars

MockSearch ==
  /\ storeType = "mock"
  /\ ret = NoCall
  /\ \E options \in SearchInputs :
       LET matched == MockMatch(MockFilter(documents, options), options)
       IN \E score \in [1..Len(matched) -> MockScores] :
            ret' = [NoCall EXCEPT !.op = "search", !.options = options,
                      !.results = MockSearchResult(documents, options, score)]
  /\ UNCHANGED <<storeType, documents, rows, points>>
  /\ UNCHANGED nonStoreVars

MockListPackages ==
  /\ storeType = "mock"
  /\ ret = NoCall
  /\ ret' = [NoCall EXCEPT !.op = "listPackages",
               !.packages = MockListPackagesResult(documents)]
  /\ UNCHANGED <<storeType, documents, rows, points>>
  /\ UNCHANGED nonStoreVars

\* listVersions(): `if (versions.size === 0) throw new Error('Package not found')`
MockListVersions ==
  /\ storeType = "mock"
  /\ ret = NoCall
  /\ \E packageName \in PackageInputs :
       LET versions == MockListVersionsResult(documents, packageName)
       IN ret' = [NoCall EXCEPT !.op = "listVersions", !.pkg = packageName,
                    !.err = IF Len(versions) = 0 THEN "Package not found" ELSE "none",
                    !.versions = IF Len(versions) = 0 THEN << >> ELSE versions]
  /\ UNCHANGED <<storeType, documents, rows, points>>
  /\ UNCHANGED nonStoreVars

MockDeletePackageVersion ==
  /\ storeType = "mock"
  /\ ret = NoCall
  /\ \E packageName \in Packages, version \in Versions :
       /\ documents' = MockDeleteResult(documents, packageName, version)
       /\ ret' = [NoCall EXCEPT !.op = "deletePackageVersion", !.pkg = packageName,
                    !.ver = version, !.before = documents]
  /\ UNCHANGED <<storeType, rows, points>>
  /\ UNCHANGED nonStoreVars

(***************************************************************************)
(* Helpers for the two database backends                                   *)
(***************************************************************************)
\* some enumeration of a finite set
RECURSIVE SetToSeq(_)
SetToSeq(S) ==
  IF S = {} THEN << >>
  ELSE LET x == CHOOSE y \in S : TRUE IN <<x>> \o SetToSeq(S \ {x})

\* the names of S by ascending / descending StrOrd
NamesAscending(S) ==
  LET e == SetToSeq(S) IN StableSort(e, [i \in 1..Len(e) |-> StrOrd(e[i])]).seq
NamesDescending(S) ==
  LET e == SetToSeq(S) IN StableSort(e, [i \in 1..Len(e) |-> 0 - StrOrd(e[i])]).seq

\* every order of the elements of S in which sim is non-increasing: what
\* the database may return for a query ordered by descending similarity
RankedOrders(S, sim) ==
  {s \in SeqsUpTo(S, Cardinality(S)) :
     /\ Len(s) = Cardinality(S)
     /\ Range(s) = S
     /\ \A i \in 1..(Len(s) - 1) : sim[s[i]] >= sim[s[i + 1]]}

\* similarities 1 - cosine distance, in hundredths
Similarities == {20, 90}

(***************************************************************************)
(* PostgresVectorStore: table documents(id PRIMARY KEY, content, package,  *)
(* version, ...), each row held as the document it was inserted from       *)
(***************************************************************************)
\* search(): the WHERE clause built from `conditions`
PgWhere(table, options) ==
  {r \in table :
     /\ (Truthy(options.package) => r.metadata.package = options.package)
     /\ (Truthy(options.version) => r.metadata.version = options.version)}

\* search(): `ORDER BY embedding <=> $1::vector LIMIT $n` with
\* `values.push(options.limit || 5)`, order being one of the orders by
\* ascending distance; then `result.rows.map(...)`
PgSearchResult(order, sim, options) ==
  LET limited == Slice(order, Limit(options))
  IN [i \in 1..Len(limited) |-> Result(limited[i], sim[limited[i]])]

\* listPackages(): GROUP BY package, array_agg(DISTINCT version ORDER BY
\* version DESC), ORDER BY package
PgListPackagesResult(table) ==
  LET names == NamesAscending({r.metadata.package : r \in table})
  IN [i \in 1..Len(names) |->
        [name |-> names[i],
         versions |-> NamesDescending({r.metadata.version :
                         r \in {q \in table : q.metadata.package = names[i]}})]]

\* listVersions(): WHERE package = $1 GROUP BY version ORDER BY version DESC
PgListVersionsResult(table, packageName) ==
  LET mine == {r \in table : r.metadata.package = packageName}
      vs == NamesDescending({r.metadata.version : r \in mine})
  IN [i \in 1..Len(vs) |->
        [version |-> vs[i],
         doc_count |-> Cardinality({r \in mine : r.metadata.version = vs[i]})]]

\* deletePackageVersion(): DELETE FROM documents WHERE package = $1 AND version = $2
PgDeleteResult(table, packageName, version) ==
  {r \in table : ~(r.metadata.package = packageName /\ r.metadata.version = version)}

\* INSERT of one row: the primary key rejects an id that is already stored
PgInsertFails(table, doc) == \E r \in table : r.id = doc.id

\* The rows after the INSERTs of docs in order, up to the first that fails
RECURSIVE PgInsertAll(_, _)
PgInsertAll(table, docs) ==
  IF docs = << >> THEN [ok |-> TRUE, table |-> table]
  ELSE IF PgInsertFails(table, Head(docs)) THEN [ok |-> FALSE, table |-> table]
  ELSE PgInsertAll(table \cup {Head(docs)}, Tail(docs))

\* addDocument(doc): one INSERT through pool.query
PgAddDocument ==
  /\ storeType = "postgres"
  /\ ret = NoCall
  /\ \E doc \in DocPool :
       IF PgInsertFails(rows, doc)
       THEN /\ rows' = rows
            /\ ret' = [NoCall EXCEPT !.op = "addDocument", !.err = "Duplicate key"]
       ELSE /\ rows' = rows \cup {doc}
            /\ ret' = [NoCall EXCEPT !.op = "addDocument"]
  /\ UNCHANGED <<storeType, documents, points>>
  /\ UNCHANGED nonStoreVars

\* addDocuments(docs): BEGIN, the INSERTs, COMMIT; ROLLBACK when one fails
PgAddDocuments ==
  /\ storeType = "postgres"
  /\ ret = NoCall
  /\ \E docs \in SeqsUpTo(DocPool, MaxBatch) :
       LET r == PgInsertAll(rows, docs)
       IN IF r.ok
          THEN /\ rows' = r.table
               /\ ret' = [NoCall EXCEPT !.op = "addDocuments"]
          ELSE /\ rows' = rows
               /\ ret' = [NoCall EXCEPT !.op = "addDocuments", !.err = "Duplicate key"]
  /\ UNCHANGED <<storeType, documents, points>>
  /\ UNCHANGED nonStoreVars

PgSearch ==
  /\ storeType = "postgres"
  /\ ret = NoCall
  /\ \E options \in SearchInputs :
       LET selected == PgWhere(rows, options)
       IN \E sim \in [selected -> Similarities] :
            \E order \in RankedOrders(selected, sim) :
              ret' = [NoCall EXCEPT !.op = "search", !.options = options,
                        !.results = PgSearchResult(order, sim, options)]
  /\ UNCHANGED <<storeType, documents, rows, points>>
  /\ UNCHANGED nonStoreVars

PgListPackages ==
  /\ storeType = "postgres"
  /\ ret = NoCall
  /\ ret' = [NoCall EXCEPT !.op = "listPackages",
               !.packages = PgListPackagesResult(rows)]
  /\ UNCHANGED <<storeType, documents, rows, points>>
  /\ UNCHANGED nonStoreVars

\* listVersions(): `if (result.rows.length === 0) throw new Error('Package not found')`
PgListVersions ==
  /\ storeType = "postgres"
  /\ ret = NoCall
  /\ \E packageName \in PackageInputs :
       LET versions == PgListVersionsResult(rows, packageName)
       IN ret' = [NoCall EXCEPT !.op = "listVersions", !.pkg = packageName,
                    !.err = IF Len(versions) = 0 THEN "Package not found" ELSE "none",
                    !.versions = IF Len(versions) = 0 THEN << >> ELSE versions]
  /\ UNCHANGED <<storeType, documents, rows, points>>
  /\ UNCHANGED nonStoreVars

PgDeletePackageVersion ==
  /\ storeType = "postgres"
  /\ ret = NoCall
  /\ \E packageName \in Packages, version \in Versions :
       /\ rows' = PgDeleteResult(rows, packageName, version)
       /\ ret' = [NoCall EXCEPT !.op = "deletePackageVersion", !.pkg = packageName,
                    !.ver = version, !.before = SetToSeq(rows)]
  /\ UNCHANGED <<storeType, documents, points>>
  /\ UNCHANGED nonStoreVars

(***************************************************************************)
(* QdrantVectorStore: collection `documents`, one point per id, each point *)
(* held as the document it was upserted from                               *)
(***************************************************************************)
ScrollLimit == 1000

\* client.upsert of one point: a point with the same id is replaced
QdrantUpsertPoint(collection, doc) == {q \in collection : q.id # doc.id} \cup {doc}

\* client.upsert of a batch of points, in order: of the points of the
\* batch that share an id the last one stays
QdrantUpsert(collection, docs) ==
  LET ids == {docs[k].id : k \in 1..Len(docs)}
      last == {k \in 1..Len(docs) : \A j \in (k + 1)..Len(docs) : docs[j].id # docs[k].id}
  IN {q \in collection : q.id \notin ids} \cup {docs[k] : k \in last}

\* search(): the `must` conditions of the filter
QdrantFilter(collection, options) ==
  {q \in collection :
     /\ (Truthy(options.package) => q.metadata.package = options.package)
     /\ (Truthy(options.version) => q.metadata.version = options.version)}

\* search(): client.search returns the `limit: options.limit || 5` best
\* points by descending score; then the map with `score: point.score || 0`
QdrantSearchResult(order, sim, options) ==
  LET limited == Slice(order, Limit(options))
  IN [i \in 1..Len(limited) |-> Result(limited[i], sim[limited[i]])]

\* client.scroll: one page of at most ScrollLimit points by ascending id,
\* from the point with id offset on (0: from the start)
QdrantScroll(collection, offset) ==
  LET rest == ById({q \in collection : q.id >= offset})
  IN [points |-> Slice(rest, ScrollLimit),
      next_page_offset |-> IF Len(rest) > ScrollLimit THEN rest[ScrollLimit + 1].id ELSE 0]

\* the do-while loop of listPackages()/listVersions(): the points of all pages
RECURSIVE QdrantScrollAll(_, _)
QdrantScrollAll(collection, offset) ==
  LET page == QdrantScroll(collection, offset)
  IN IF page.next_page_offset = 0 THEN page.points
     ELSE page.points \o QdrantScrollAll(collection, page.next_page_offset)

\* listPackages(): `Array.from(versions).sort((a, b) => b.localeCompare(a))`
QdrantSortVersions(versions) ==
  StableSort(versions, [i \in 1..Len(versions) |-> 0 - StrOrd(versions[i])]).seq

\* listPackages(): `packages.sort((a, b) => a.name.localeCompare(b.name))`
QdrantSortPackages(packages) ==
  StableSort(packages, [i \in 1..Len(packages) |-> StrOrd(packages[i].name)]).seq

QdrantListPackagesResult(collection) ==
  LET pts == QdrantScrollAll(collection, 0)
      names == InsertionOrder([i \in 1..Len(pts) |-> pts[i].metadata.package])
      versionsOf(name) ==
        LET mine == SelectSeqBy(pts, [i \in 1..Len(pts) |->
                                        pts[i].metadata.package = name])
        IN InsertionOrder([i \in 1..Len(mine) |-> mine[i].metadata.version])
  IN QdrantSortPackages([i \in 1..Len(names) |->
        [name |-> names[i], versions |-> QdrantSortVersions(versionsOf(names[i]))]])

\* listVersions(): `versions.sort((a, b) => b.version.localeCompare(a.version))`
QdrantListVersionsResult(collection, packageName) ==
  LET pts == QdrantScrollAll({q \in collection : q.metadata.package = packageName}, 0)
      vs == InsertionOrder([i \in 1..Len(pts) |-> pts[i].metadata.version])
      counted == [i \in 1..Len(vs) |->
                    [version |-> vs[i],
                     doc_count |-> Cardinality({j \in 1..Len(pts) :
                                                  pts[j].metadata.version = vs[i]})]]
  IN StableSort(counted, [i \in 1..Len(counted) |-> 0 - StrOrd(counted[i].version)]).seq

\* deletePackageVersion(): client.delete with both `must` conditions
QdrantDeleteResult(collection, packageName, version) ==
  {q \in collection : ~(q.metadata.package = packageName /\ q.metadata.version = version)}

QdrantAddDocument ==
  /\ storeType = "qdrant"
  /\ ret = NoCall
  /\ \E doc \in DocPool : points' = QdrantUpsertPoint(points, doc)
  /\ ret' = [NoCall EXCEPT !.op = "addDocument"]
  /\ UNCHANGED <<storeType, documents, rows>>
  /\ UNCHANGED nonStoreVars

\* addDocuments(docs) when every upsert succeeds (QdrantBatchNext has the
\* single upserts and their failure)
QdrantAddDocuments ==
  /\ storeType = "qdrant"
  /\ ret = NoCall
  /\ \E docs \in SeqsUpTo(DocPool, MaxBatch) : points' = QdrantUpsert(points, docs)
  /\ ret' = [NoCall EXCEPT !.op = "addDocuments"]
  /\ UNCHANGED <<storeType, documents, rows>>
  /\ UNCHANGED nonStoreVars

QdrantSearch ==
  /\ storeType = "qdrant"
  /\ ret = NoCall
  /\ \E options \in SearchInputs :
       LET selected == QdrantFilter(points, options)
       IN \E sim \in [selected -> Similarities] :
            \E order \in RankedOrders(selected, sim) :
              ret' = [NoCall EXCEPT !.op = "search", !.options = options,
                        !.results = QdrantSearchResult(order, sim, options)]
  /\ UNCHANGED <<storeType, documents, rows, points>>
  /\ UNCHANGED nonStoreVars

QdrantListPackages ==
  /\ storeType = "qdrant"
  /\ ret = NoCall
  /\ ret' = [NoCall EXCEPT !.op = "listPackages",
               !.packages = QdrantListPackagesResult(points)]
  /\ UNCHANGED <<storeType, documents, rows, points>>
  /\ UNCHANGED nonStoreVars

\* listVersions(): `if (versionMap.size === 0) throw new Error('Package not found')`
QdrantListVersions ==
  /\ storeType = "qdrant"
  /\ ret = NoCall
  /\ \E packageName \in PackageInputs :
       LET versions == QdrantListVersionsResult(points, packageName)
       IN ret' = [NoCall EXCEPT !.op = "listVersions", !.pkg = packageName,
                    !.err = IF Len(versions) = 0 THEN "Package not found" ELSE "none",
                    !.versions = IF Len(versions) = 0 THEN << >> ELSE versions]
  /\ UNCHANGED <<storeType, documents, rows, points>>
  /\ UNCHANGED nonStoreVars

QdrantDeletePackageVersion ==
  /\ storeType = "qdrant"
  /\ ret = NoCall
  /\ \E packageName \in Packages, version \in Versions :
       /\ points' = QdrantDeleteResult(points, packageName, version)
       /\ ret' = [NoCall EXCEPT !.op = "deletePackageVersion", !.pkg = packageName,
                    !.ver = version, !.before = SetToSeq(points)]
  /\ UNCHANGED <<storeType, documents, rows>>
  /\ UNCHANGED nonStoreVars

(***************************************************************************)
(* PostgresVectorStore.addDocuments, statement by statement.  rows is the  *)
(* committed content of the table; tx.pending are the rows the open        *)
(* transaction has inserted.  A statement that fails has no effect.  A     *)
(* failure is named after the statement that raised it.                    *)
(***************************************************************************)
TxIdle ==
  [pc |-> "idle", docs |-> << >>, i |-> 1, pending |-> {}, caught |-> "none",
   log |-> << >>, client |-> "none", releases |-> 0,
   result |-> "none", error |-> "none", before |-> {}]

\* addDocuments(docs) is called: `const client = await this.pool.connect()`
TxCall ==
  /\ tx.pc \in {"idle", "settled"}
  /\ \E docs \in SeqsUpTo(DocPool, MaxBatch) :
       tx' = [TxIdle EXCEPT !.pc = "connect", !.docs = docs, !.before = rows]
  /\ UNCHANGED <<storeType, documents, rows, points, ret, qb>>
  /\ UNCHANGED nonStepVars

\* pool.connect() resolved with a client
TxConnectOk ==
  /\ tx.pc = "connect"
  /\ tx' = [tx EXCEPT !.pc = "begin", !.client = "held"]
  /\ UNCHANGED <<storeType, documents, rows, points, ret, qb>>
  /\ UNCHANGED nonStepVars

\* pool.connect() rejected: the call rejects before the try block
TxConnectFail ==
  /\ tx.pc = "connect"
  /\ tx' = [tx EXCEPT !.pc = "settled", !.result = "rejected", !.error = "connect"]
  /\ UNCHANGED <<storeType, documents, rows, points, ret, qb>>
  /\ UNCHANGED nonStepVars

\* where the try block goes after BEGIN or an INSERT succeeded
TxAfter(i, docs) == IF i <= Len(docs) THEN "insert" ELSE "commit"

\* `await client.query('BEGIN')`
TxBeginOk ==
  /\ tx.pc = "begin"
  /\ tx' = [tx EXCEPT !.pc = TxAfter(1, tx.docs), !.i = 1, !.log = Append(@, "BEGIN")]
  /\ UNCHANGED <<storeType, documents, rows, points, ret, qb>>
  /\ UNCHANGED nonStepVars

TxBeginFail ==
  /\ tx.pc = "begin"
  /\ tx' = [tx EXCEPT !.pc = "rollback", !.caught = "BEGIN", !.log = Append(@, "BEGIN")]
  /\ UNCHANGED <<storeType, documents, rows, points, ret, qb>>
  /\ UNCHANGED nonStepVars

\* `await client.query(query, values)` of the loop: the INSERT of docs[i]
TxInsertOk ==
  /\ tx.pc = "insert"
  /\ ~ PgInsertFails(rows \cup tx.pending, tx.docs[tx.i])
  /\ tx' = [tx EXCEPT !.pc = TxAfter(tx.i + 1, tx.docs), !.i = @ + 1,
              !.pending = @ \cup {tx.docs[tx.i]}, !.log = Append(@, "INSERT")]
  /\ UNCHANGED <<storeType, documents, rows, points, ret, qb>>
  /\ UNCHANGED nonStepVars

\* the INSERT fails: a duplicate key, or the backend fails
TxInsertFail ==
  /\ tx.pc = "insert"
  /\ tx' = [tx EXCEPT !.pc = "rollback", !.caught = "INSERT", !.log = Append(@, "INSERT")]
  /\ UNCHANGED <<storeType, documents, rows, points, ret, qb>>
  /\ UNCHANGED nonStepVars

\* `await client.query('COMMIT')`: the pending rows become committed
TxCommitOk ==
  /\ tx.pc = "commit"
  /\ rows' = rows \cup tx.pending
  /\ tx' = [tx EXCEPT !.pc = "finally", !.pending = {}, !.log = Append(@, "COMMIT")]
  /\ UNCHANGED <<storeType, documents, points, ret, qb>>
  /\ UNCHANGED nonStepVars

TxCommitFail ==
  /\ tx.pc = "commit"
  /\ tx' = [tx EXCEPT !.pc = "rollback", !.caught = "COMMIT", !.log = Append(@, "COMMIT")]
  /\ UNCHANGED <<storeType, documents, rows, points, ret, qb>>
  /\ UNCHANGED nonStepVars

\* the error that leaves the catch block when ROLLBACK resolved: `throw error`
TxRethrown(caught) == caught

\* catch: `await client.query('ROLLBACK')` resolved, then `throw error`
TxRollbackOk ==
  /\ tx.pc = "rollback"
  /\ tx' = [tx EXCEPT !.pc = "finally", !.pending = {}, !.log = Append(@, "ROLLBACK"),
              !.error = TxRethrown(tx.caught)]
  /\ UNCHANGED <<storeType, documents, rows, points, ret, qb>>
  /\ UNCHANGED nonStepVars

\* catch: `await client.query('ROLLBACK')` rejected: its error leaves the
\* catch block and `throw error` is not reached.  The transaction was not
\* committed, so its rows are lost with the connection.
TxRollbackFail ==
  /\ tx.pc = "rollback"
  /\ tx' = [tx EXCEPT !.pc = "finally", !.pending = {}, !.log = Append(@, "ROLLBACK"),
              !.error = "ROLLBACK"]
  /\ UNCHANGED <<storeType, documents, rows, points, ret, qb>>
  /\ UNCHANGED nonStepVars

\* finally: `client.release()`, and the call settles
TxRelease ==
  /\ tx.pc = "finally"
  /\ tx' = [tx EXCEPT !.pc = "settled", !.client = "released", !.releases = @ + 1,
              !.result = IF tx.error = "none" THEN "resolved" ELSE "rejected"]
  /\ UNCHANGED <<storeType, documents, rows, points, ret, qb>>
  /\ UNCHANGED nonStepVars

(***************************************************************************)
(* QdrantVectorStore.addDocuments, upsert by upsert.  The documents of a   *)
(* call are numbered 1..n in input order and the k-th has id k.            *)
(***************************************************************************)
BatchSize == 100

BatchDoc(k) == Doc(k, <<"c">>, "react", "18.3.0")

BatchDocs(n) == [k \in 1..n |-> BatchDoc(k)]

QbIdle ==
  [pc |-> "idle", n |-> 0, i |-> 0, log |-> << >>, inflight |-> 0,
   result |-> "none", failedAt |-> 0]

\* Faulty variant of QdrantBatch: slice(i, i + batchSize + 1)
QdrantBatchOverlapping(docs, i) ==
  SubSeq(docs, i + 1, IF i + BatchSize + 1 < Len(docs) THEN i + BatchSize + 1 ELSE Len(docs))

\* `docs.slice(i, i + this.batchSize)`
QdrantBatch(docs, i) == SubSeq(docs, i + 1, IF i + BatchSize < Len(docs) THEN i + BatchSize ELSE Len(docs))

\* addDocuments(docs) is called: `for (let i = 0; ...`
QbCall ==
  /\ qb.pc = "idle"
  /\ \E n \in 0..MaxBatchDocs : qb' = [QbIdle EXCEPT !.pc = "loop", !.n = n]
  /\ UNCHANGED <<storeType, documents, rows, points, ret, tx>>
  /\ UNCHANGED nonStepVars

\* the loop body up to `await this.client.upsert(...)`: a request with the
\* points of the next batch is sent
QbUpsertSend ==
  /\ qb.pc = "loop"
  /\ qb.i < qb.n
  /\ LET batch == QdrantBatch(BatchDocs(qb.n), qb.i)
     IN qb' = [qb EXCEPT !.pc = "awaitUpsert", !.inflight = @ + 1,
                 !.log = Append(@, [k \in 1..Len(batch) |-> batch[k].id])]
  /\ UNCHANGED <<storeType, documents, rows, points, ret, tx>>
  /\ UNCHANGED nonStepVars

\* the upsert resolved: its points are stored; `i += this.batchSize`
QbUpsertOk ==
  /\ qb.pc = "awaitUpsert"
  /\ points' = QdrantUpsert(points, QdrantBatch(BatchDocs(qb.n), qb.i))
  /\ qb' = [qb EXCEPT !.pc = "loop", !.inflight = @ - 1, !.i = @ + BatchSize]
  /\ UNCHANGED <<storeType, documents, rows, ret, tx>>
  /\ UNCHANGED nonStepVars

\* the upsert rejected: catch logs and rethrows, the loop is left
QbUpsertFail ==
  /\ qb.pc = "awaitUpsert"
  /\ qb' = [qb EXCEPT !.pc = "settled", !.inflight = @ - 1, !.result = "rejected",
              !.failedAt = Len(qb.log)]
  /\ UNCHANGED <<storeType, documents, rows, points, ret, tx>>
  /\ UNCHANGED nonStepVars

\* the loop condition `i < docs.length` fails: the call resolves
QbDone ==
  /\ qb.pc = "loop"
  /\ ~ (qb.i < qb.n)
  /\ qb' = [qb EXCEPT !.pc = "settled", !.result = "resolved"]
  /\ UNCHANGED <<storeType, documents, rows, points, ret, tx>>
  /\ UNCHANGED nonStepVars

(***************************************************************************)
(* The three stores side by side.  One process per store class is given    *)
(* the same calls; documents, rows and points are the three contents.      *)
(* Documents carry the length of their embedding here.                     *)
(***************************************************************************)
OpenAIDimension == 1536
OllamaDimension == 384

\* embeddingDimension as the constructors of the two database stores set it
EmbeddingDimension(key) == IF key THEN OpenAIDimension ELSE OllamaDimension

\* a VectorDocument with an embedding of n numbers
Embedded(doc, n) ==
  [id |-> doc.id, content |-> doc.content, metadata |-> doc.metadata, embedding |-> n]

\* the documents that callers add: two of them have the same id
EmbeddedPool ==
  { Embedded(Doc(1, <<"A", "b">>, "next", "14.2.2"), OpenAIDimension),
    Embedded(Doc(1, <<"B">>, "next", "14.2.1"), OpenAIDimension),
    Embedded(Doc(2, <<"c">>, "react", "18.3.0"), OllamaDimension),
    Embedded(Doc(3, <<"c">>, "react", "18.3.0"), OpenAIDimension) }

\* PostgreSQL without the objects of initialize(); table is the dimension of
\* the column `embedding`, 0 when there is no table
NoSchema == [extension |-> FALSE, table |-> 0, indexes |-> {}]

\* Qdrant without the collection; size is the vector size, 0 when there is
\* no collection
NoCollection == [size |-> 0]

NoCalls ==
  [op |-> "none", inits |-> 0, mock |-> "none", postgres |-> "none", qdrant |-> "none",
   schemaBefore |-> <<NoSchema, NoCollection>>]

BackendIdle ==
  /\ apiKey = FALSE
  /\ pgSchema = NoSchema
  /\ qdCollection = NoCollection
  /\ calls = NoCalls

\* `CREATE TABLE IF NOT EXISTS documents (... embedding vector(dim) ...)`
PgCreateTable(schema, dim) ==
  IF schema.table # 0
  THEN [err |-> "none", schema |-> schema]
  ELSE [err |-> "none", schema |-> [schema EXCEPT !.table = dim]]

\* `CREATE INDEX IF NOT EXISTS name ON documents ...`
PgCreateIndex(schema, name) ==
  IF schema.table = 0
  THEN [err |-> "relation does not exist", schema |-> schema]
  ELSE [err |-> "none", schema |-> [schema EXCEPT !.indexes = @ \cup {name}]]

\* PostgresVectorStore.initialize(): the four statements in order, each in
\* its own implicit transaction; the first error ends the call
PgInitializeResult(schema, dim) ==
  LET s1 == [schema EXCEPT !.extension = TRUE]
      r2 == PgCreateTable(s1, dim)
      r3 == PgCreateIndex(r2.schema, "idx_documents_package_version")
      r4 == PgCreateIndex(r3.schema, "idx_documents_embedding")
  IN IF r2.err # "none" THEN r2
     ELSE IF r3.err # "none" THEN r3
     ELSE r4

\* client.createCollection: Qdrant refuses to create a collection that exists
QdrantCreateCollection(collection, dim) ==
  IF collection.size # 0
  THEN [err |-> "already exists", collection |-> collection]
  ELSE [err |-> "none", collection |-> [size |-> dim]]

\* Faulty variant of QdrantInitializeResult: collectionExists is not asked
QdrantInitializeUnchecked(collection, dim) == QdrantCreateCollection(collection, dim)

\* QdrantVectorStore.initialize(): createCollection unless collectionExists
QdrantInitializeResult(collection, dim) ==
  LET collectionExists == collection.size # 0
  IN IF ~ collectionExists
     THEN QdrantCreateCollection(collection, dim)
     ELSE [err |-> "none", collection |-> collection]

\* the INSERT of doc fails: no table, an embedding that does not fit the
\* column, or the primary key is taken
PgInsertError(schema, table, doc) ==
  IF schema.table = 0 THEN "relation does not exist"
  ELSE IF doc.embedding # schema.table THEN "different vector dimensions"
  ELSE IF PgInsertFails(table, doc) THEN "duplicate key"
  ELSE "none"

\* the INSERTs of docs in order inside one transaction: the first error, and
\* the rows as they are after COMMIT or ROLLBACK
RECURSIVE PgInsertEach(_, _, _, _)
PgInsertEach(schema, committed, table, docs) ==
  IF docs = << >> THEN [err |-> "none", table |-> table]
  ELSE LET e == PgInsertError(schema, table, Head(docs))
       IN IF e # "none" THEN [err |-> e, table |-> committed]
          ELSE PgInsertEach(schema, committed, table \cup {Head(docs)}, Tail(docs))

\* client.upsert of one request: refused as a whole when there is no
\* collection or a vector has another size than the collection's
QdrantUpsertError(collection, docs) ==
  IF collection.size = 0 THEN "collection not found"
  ELSE IF \E k \in 1..Len(docs) : docs[k].embedding # collection.size
       THEN "vector dimension error"
  ELSE "none"

\* initialize() on the three stores (MockVectorStore.initialize does nothing)
EachInitialize ==
  LET pg == PgInitializeResult(pgSchema, EmbeddingDimension(apiKey))
      qd == QdrantInitializeResult(qdCollection, EmbeddingDimension(apiKey))
  IN /\ pgSchema' = pg.schema
     /\ qdCollection' = qd.collection
     /\ calls' = [op |-> "initialize",
                  inits |-> IF calls.inits < 2 THEN calls.inits + 1 ELSE 2,
                  mock |-> "none", postgres |-> pg.err, qdrant |-> qd.err,
                  schemaBefore |-> <<pgSchema, qdCollection>>]
     /\ UNCHANGED <<apiKey, storeType, documents, rows, points, ret>>
     /\ UNCHANGED <<factoryVars, stepVars, serviceVars>>

\* addDocument(doc) on the three stores
EachAddDocument ==
  /\ Len(documents) < MaxEachDocs
  /\ \E doc \in EmbeddedPool :
       LET pg == PgInsertError(pgSchema, rows, doc)
           qd == QdrantUpsertError(qdCollection, <<doc>>)
       IN /\ documents' = Append(documents, doc)
          /\ rows' = IF pg = "none" THEN rows \cup {doc} ELSE rows
          /\ points' = IF qd = "none" THEN QdrantUpsertPoint(points, doc) ELSE points
          /\ calls' = [calls EXCEPT !.op = "addDocument", !.mock = "none",
                         !.postgres = pg, !.qdrant = qd]
  /\ UNCHANGED <<apiKey, pgSchema, qdCollection, storeType, ret>>
  /\ UNCHANGED <<factoryVars, stepVars, serviceVars>>

\* addDocuments(docs) on the three stores; docs fits one upsert request
EachAddDocuments ==
  /\ \E docs \in SeqsUpTo(EmbeddedPool, MaxBatch) :
       LET pg == PgInsertEach(pgSchema, rows, rows, docs)
           qd == IF docs = << >> THEN "none" ELSE QdrantUpsertError(qdCollection, docs)
       IN /\ Len(documents) + Len(docs) <= MaxEachDocs
          /\ documents' = documents \o docs
          /\ rows' = pg.table
          /\ points' = IF qd = "none" THEN QdrantUpsert(points, docs) ELSE points
          /\ calls' = [calls EXCEPT !.op = "addDocuments", !.mock = "none",
                         !.postgres = pg.err, !.qdrant = qd]
  /\ UNCHANGED <<apiKey, pgSchema, qdCollection, storeType, ret>>
  /\ UNCHANGED <<factoryVars, stepVars, serviceVars>>

\* deletePackageVersion(packageName, version) on the three stores
EachDeletePackageVersion ==
  /\ \E packageName \in PackageInputs, version \in Versions :
       /\ documents' = MockDeleteResult(documents, packageName, version)
       /\ rows' = IF pgSchema.table = 0 THEN rows
                  ELSE PgDeleteResult(rows, packageName, version)
       /\ points' = IF qdCollection.size = 0 THEN points
                    ELSE QdrantDeleteResult(points, packageName, version)
       /\ calls' = [calls EXCEPT !.op = "deletePackageVersion", !.mock = "none",
                      !.postgres = IF pgSchema.table = 0
                                   THEN "relation does not exist" ELSE "none",
                      !.qdrant = IF qdCollection.size = 0
                                 THEN "collection not found" ELSE "none"]
  /\ UNCHANGED <<apiKey, pgSchema, qdCollection, storeType, ret>>
  /\ UNCHANGED <<factoryVars, stepVars, serviceVars>>

(***************************************************************************)
(* DocumentScraper.chunkDocument (services/scraper.ts).  A text is a       *)
(* sequence of one-character strings; "\n" is the line feed.               *)
(***************************************************************************)
\* the characters of the class [.!?] of the sentence pattern
IsTerminator(ch) == ch \in {".", "!", "?"}

\* the white space that String.prototype.trim removes
IsSpace(ch) == ch \in {" ", "\n"}

\* String.prototype.trim
Trim(text) ==
  LET inked == {i \in 1..Len(text) : ~ IsSpace(text[i])}
  IN IF inked = {} THEN << >>
     ELSE SubSeq(text, CHOOSE i \in inked : \A j \in inked : i <= j,
                       CHOOSE i \in inked : \A j \in inked : i >= j)

\* the first position from p on that holds a terminator, Len(text) + 1 if none
NextTerminator(text, p) ==
  LET at == {i \in p..Len(text) : IsTerminator(text[i])}
  IN IF at = {} THEN Len(text) + 1 ELSE CHOOSE i \in at : \A j \in at : i <= j

\* the first position from p on that holds no terminator, Len(text) + 1 if none
NextNonTerminator(text, p) ==
  LET at == {i \in p..Len(text) : ~ IsTerminator(text[i])}
  IN IF at = {} THEN Len(text) + 1 ELSE CHOOSE i \in at : \A j \in at : i <= j

\* `text.match(/[^.!?]+[.!?]+/g)` from position p on: each match is a longest
\* run of non-terminators and the longest run of terminators after it; a
\* run of non-terminators that reaches the end of the text matches nothing
RECURSIVE MatchSentences(_, _)
MatchSentences(text, p) ==
  LET start == NextNonTerminator(text, p)
      stop == NextTerminator(text, start)
      next == NextNonTerminator(text, stop)
  IN IF stop > Len(text) THEN << >>
     ELSE <<SubSeq(text, start, next - 1)>> \o MatchSentences(text, next)

\* `text.match(/[^.!?]+[.!?]+/g) || [text]`
Sentences(text) ==
  LET matches == MatchSentences(text, 1)
  IN IF matches = << >> THEN <<text>> ELSE matches

\* String.prototype.indexOf(' '), counted from 0; -1 if there is none
IndexOfSpace(text) ==
  LET at == {i \in 1..Len(text) : text[i] = " "}
  IN IF at = {} THEN 0 - 1 ELSE (CHOOSE i \in at : \A j \in at : i <= j) - 1

\* String.prototype.lastIndexOf('. '), counted from 0; -1 if there is none
LastIndexOfSentenceEnd(text) ==
  LET at == {i \in 1..(Len(text) - 1) : text[i] = "." /\ text[i + 1] = " "}
  IN IF at = {} THEN 0 - 1 ELSE (CHOOSE i \in at : \A j \in at : i >= j) - 1

\* String.prototype.slice(-n): the last n characters, and for n = 0 the
\* whole text, -0 being 0
SliceLast(text, n) ==
  IF n = 0 \/ n >= Len(text) THEN text ELSE SubSeq(text, Len(text) - n + 1, Len(text))

\* String.prototype.slice(n): the text without its first n characters
SliceFrom(text, n) == SubSeq(text, n + 1, Len(text))

\* Faulty variant of GetOverlapText: the overlap is taken from the start of
\* the chunk, not from its end
GetOverlapTextFromStart(text, overlapSize) ==
  IF Len(text) <= overlapSize THEN text ELSE SubSeq(text, 1, overlapSize)

\* getOverlapText(text, overlapSize)
GetOverlapText(text, overlapSize) ==
  IF Len(text) <= overlapSize THEN text
  ELSE LET lastPart == SliceLast(text, overlapSize)
           sentenceEnd == LastIndexOfSentenceEnd(lastPart)
           wordBoundary == IndexOfSpace(lastPart)
       IN IF sentenceEnd > 0 THEN SliceFrom(lastPart, sentenceEnd + 2)
          ELSE IF wordBoundary > 0 THEN SliceFrom(lastPart, wordBoundary + 1)
          ELSE lastPart

\* chunkText(): the for loop from the k-th sentence on, then the last push
RECURSIVE ChunkLoop(_, _, _, _, _, _)
ChunkLoop(sentences, k, chunks, currentChunk, maxChunkSize, overlap) ==
  IF k > Len(sentences)
  THEN IF Trim(currentChunk) # << >> THEN Append(chunks, Trim(currentChunk)) ELSE chunks
  ELSE LET sentence == sentences[k]
       IN IF Len(currentChunk) + Len(sentence) > maxChunkSize /\ currentChunk # << >>
          THEN ChunkLoop(sentences, k + 1, Append(chunks, Trim(currentChunk)),
                         GetOverlapText(currentChunk, overlap) \o sentence,
                         maxChunkSize, overlap)
          ELSE ChunkLoop(sentences, k + 1, chunks, currentChunk \o sentence,
                         maxChunkSize, overlap)

\* chunkText(text, maxChunkSize, overlap)
ChunkText(text, maxChunkSize, overlap) ==
  ChunkLoop(Sentences(text), 1, << >>, << >>, maxChunkSize, overlap)

\* `content.split('\n')`
RECURSIVE SplitLines(_)
SplitLines(content) ==
  LET at == {i \in 1..Len(content) : content[i] = "\n"}
  IN IF at = {} THEN <<content>>
     ELSE LET i == CHOOSE x \in at : \A y \in at : x <= y
          IN <<SubSeq(content, 1, i - 1)>> \o SplitLines(SubSeq(content, i + 1, Len(content)))

\* `line.startsWith('# ')`
IsHeading(line) == Len(line) >= 2 /\ line[1] = "#" /\ line[2] = " "

\* splitIntoSections(): the for loop from the k-th line on, then the last push
RECURSIVE SectionLoop(_, _, _, _)
SectionLoop(lines, k, sections, currentSection) ==
  LET pushed == IF Trim(currentSection.content) # << >>
                THEN Append(sections, currentSection) ELSE sections
  IN IF k > Len(lines) THEN pushed
     ELSE IF IsHeading(lines[k])
          THEN SectionLoop(lines, k + 1, pushed,
                           [title |-> Trim(SliceFrom(lines[k], 2)),
                            content |-> lines[k] \o <<"\n">>])
          ELSE SectionLoop(lines, k + 1, sections,
                           [currentSection EXCEPT !.content = @ \o lines[k] \o <<"\n">>])

\* splitIntoSections(content); the title 'Introduction' is written "Introduction"
SplitIntoSections(content) ==
  SectionLoop(SplitLines(content), 1, << >>,
              [title |-> <<"Introduction">>, content |-> << >>])

\* chunkDocument(): the chunks of the sections from the k-th on, appended to chunks
RECURSIVE SectionChunks(_, _, _, _)
SectionChunks(sections, k, chunks, options) ==
  IF k > Len(sections) THEN chunks
  ELSE LET sectionChunks == ChunkText(sections[k].content, options.maxChunkSize,
                                      options.overlap)
           tagged == [i \in 1..Len(sectionChunks) |->
                        [content |-> sectionChunks[i], section |-> sections[k].title,
                         sectionIndex |-> k, chunkIndex |-> Len(chunks) + i - 1,
                         totalChunks |-> 0]]
       IN SectionChunks(sections, k + 1, chunks \o tagged, options)

\* chunkDocument(content, options); sectionIndex is the position of the
\* chunk's section, which the code does not return
ChunkDocumentResult(content, options) ==
  LET chunks == SectionChunks(SplitIntoSections(content), 1, << >>, options)
  IN [i \in 1..Len(chunks) |-> [chunks[i] EXCEPT !.totalChunks = Len(chunks)]]

\* the characters of the texts given to chunkDocument
Letters == {"a", " ", "."}

\* the contents given to chunkDocument: one-line texts, and two-line texts
\* whose second line may be a heading
ContentInputs ==
  SeqsUpTo(Letters, MaxText)
    \cup {before \o <<"\n">> \o mark \o after :
            before \in SeqsUpTo(Letters, MaxSectionText),
            mark \in {<< >>, <<"#", " ">>},
            after \in SeqsUpTo(Letters, MaxSectionText + 2)}

\* the options given to chunkDocument
ChunkOptionInputs == [maxChunkSize : {4, 6}, overlap : {0, 3, 5}]

ChunkerIdle == [pc |-> "idle", content |-> << >>,
                options |-> [maxChunkSize |-> 0, overlap |-> 0], chunks |-> << >>]

\* chunkDocument(content, options) is called and returns
ChunkDocument ==
  /\ chunker.pc = "called"
  /\ chunker' = [chunker EXCEPT !.pc = "returned",
                   !.chunks = ChunkDocumentResult(chunker.content, chunker.options)]
  /\ UNCHANGED nonChunkVars

(***************************************************************************)
(* EmbeddingService (services/embeddings.ts).  A vector is a sequence of   *)
(* rationals [num, den]; the vectors the backends return have den = 1.     *)
(***************************************************************************)
DefaultMaxTokensPerChunk == 8191
CharsPerToken == 4

\* constructor: `options.maxTokensPerChunk || 8191`; 0 stands for an absent option
MaxTokensPerChunkOf(option) == IF option = 0 THEN DefaultMaxTokensPerChunk ELSE option

\* The vector a backend returns for a text: the same text gives the same
\* vector.  Here: the length of the text and the number of its "a".
EmbeddingOf(text) ==
  << [num |-> Len(text), den |-> 1],
     [num |-> Cardinality({i \in 1..Len(text) : text[i] = "a"}), den |-> 1] >>

\* EmbeddingService.chunkText(): the for loop from the k-th sentence on, then
\* the last push
RECURSIVE EmbeddingChunkLoop(_, _, _, _, _)
EmbeddingChunkLoop(sentences, k, chunks, currentChunk, maxTokensPerChunk) ==
  IF k > Len(sentences)
  THEN IF currentChunk # << >> THEN Append(chunks, Trim(currentChunk)) ELSE chunks
  ELSE LET chunkWithSentence == currentChunk \o sentences[k]
       IN IF Len(chunkWithSentence) > CharsPerToken * maxTokensPerChunk
             /\ currentChunk # << >>
          THEN EmbeddingChunkLoop(sentences, k + 1, Append(chunks, Trim(currentChunk)),
                                  sentences[k], maxTokensPerChunk)
          ELSE EmbeddingChunkLoop(sentences, k + 1, chunks, chunkWithSentence,
                                  maxTokensPerChunk)

\* EmbeddingService.chunkText(text); `text.length / 4 <= maxTokensPerChunk`
\* is Len(text) <= 4 * maxTokensPerChunk
EmbeddingChunkText(text, maxTokensPerChunk) ==
  IF Len(text) <= CharsPerToken * maxTokensPerChunk THEN <<text>>
  ELSE EmbeddingChunkLoop(Sentences(text), 1, << >>, << >>, maxTokensPerChunk)

\* averageEmbeddings(embeddings), for embeddings of the backends (den = 1)
\* and at least one of them
AverageEmbeddings(embeddings) ==
  LET dimension == Len(embeddings[1])
      sum[k \in 0..Len(embeddings)] ==
        IF k = 0 THEN [i \in 1..dimension |-> 0]
        ELSE [i \in 1..dimension |-> sum[k - 1][i] + embeddings[k][i].num]
  IN [i \in 1..dimension |->
        [num |-> sum[Len(embeddings)][i], den |-> Len(embeddings)]]

Unsettled == [kind |-> "none", value |-> << >>, error |-> "none"]

\* a service constructed with a provider and options, before its call
EmbeddingIdle(provider, option) ==
  [pc |-> "idle", provider |-> provider,
   maxTokensPerChunk |-> MaxTokensPerChunkOf(option),
   op |-> "none", texts |-> << >>, chunks |-> << >>, all |-> FALSE,
   average |-> FALSE, requests |-> << >>, completed |-> 0,
   failures |-> << >>, result |-> Unsettled]

\* no EmbeddingService is in use
EmbeddingNone == EmbeddingIdle("none", 0)

\* the request a call sends: `input` holds the texts of the request, `slot`
\* the position of its promise in the array given to Promise.all (0 when
\* the request stands alone)
Request(kind, input, slot) ==
  [kind |-> kind, input |-> input, slot |-> slot, state |-> "sent",
   value |-> << >>, at |-> 0]

\* embedSingle(text) up to its first await: one request for one text
EmbedSingleRequest(text, slot) == Request("single", <<text>>, slot)

\* batchEmbed(texts) up to its first await: batchEmbedOpenAI sends one
\* request for the array, batchEmbedOllama one request per text, in order
BatchEmbedRequests(provider, texts) ==
  IF provider = "openai" THEN <<Request("batch", texts, 0)>>
  ELSE [i \in 1..Len(texts) |-> EmbedSingleRequest(texts[i], i)]

\* Faulty variant of PromiseAllValues: the values in the order in which the
\* promises were fulfilled
PromiseAllInCompletionOrder(requests) ==
  [k \in 1..Len(requests) |->
     (CHOOSE r \in Range(requests) :
        Cardinality({q \in Range(requests) : q.at <= r.at}) = k).value]

\* the value of Promise.all once every promise is fulfilled: the values in
\* the order of the array
PromiseAllValues(requests) == [i \in 1..Len(requests) |-> requests[i].value]

\* what embed() does with the vectors of its chunks
EmbedReturns(e, values) == IF e.average THEN AverageEmbeddings(values) ELSE values

\* Faulty variant of RequestFails: the failure is dropped
RequestFailsSilently(e, error) == e

\* a request of the call e fails with error: the call rejects with it unless
\* it is settled already
RequestFails(e, error) ==
  [e EXCEPT !.failures = Append(@, error),
            !.result = IF @.kind = "none"
                       THEN [kind |-> "rejected", value |-> << >>, error |-> error]
                       ELSE @]

\* the request r of the call e is fulfilled with value: a lone embedSingle
\* resolves the call, a promise given to Promise.all resolves it when it is
\* the last one
RequestFulfilled(e, r, value) ==
  LET requests == [e.requests EXCEPT ![r].state = "fulfilled", ![r].value = value,
                                     ![r].at = e.completed + 1]
      settled == \A i \in 1..Len(requests) : requests[i].state = "fulfilled"
      values == IF e.all THEN PromiseAllValues(requests) ELSE value
  IN [e EXCEPT !.requests = requests, !.completed = @ + 1,
               !.result = IF @.kind = "none" /\ (~ e.all \/ settled)
                          THEN [kind |-> "resolved", value |-> EmbedReturns(e, values),
                                error |-> "none"]
                          ELSE @]

\* the call e starts with these requests; Promise.all of no promise is
\* fulfilled at once
Started(e, op, texts, chunks, requests, all, average) ==
  [e EXCEPT !.pc = "running", !.op = op, !.texts = texts, !.chunks = chunks,
            !.requests = requests, !.all = all, !.average = average,
            !.result = IF all /\ requests = << >>
                       THEN [kind |-> "resolved", value |-> << >>, error |-> "none"]
                       ELSE Unsettled]

\* the texts given to batchEmbed are drawn from these
TextPool == {<<"a">>, <<"a", ".">>, <<"a", " ", "a">>}

\* embed(text) up to its first await
Embed ==
  /\ emb.pc = "idle"
  /\ \E text \in SeqsUpTo({"a", "."}, MaxEmbedText) :
       LET chunks == EmbeddingChunkText(text, emb.maxTokensPerChunk)
       IN emb' = IF Len(chunks) = 1
                 THEN Started(emb, "embed", <<text>>, chunks,
                              <<EmbedSingleRequest(chunks[1], 0)>>, FALSE, FALSE)
                 ELSE Started(emb, "embed", <<text>>, chunks,
                              BatchEmbedRequests(emb.provider, chunks),
                              emb.provider = "ollama", TRUE)
  /\ UNCHANGED nonEmbedVars

\* batchEmbed(texts) up to its first await
BatchEmbed ==
  /\ emb.pc = "idle"
  /\ \E texts \in SeqsUpTo(TextPool, MaxEmbedTexts) :
       emb' = Started(emb, "batchEmbed", texts, << >>,
                      BatchEmbedRequests(emb.provider, texts),
                      emb.provider = "ollama", FALSE)
  /\ UNCHANGED nonEmbedVars

\* `await this.openai.embeddings.create(...)` resolves: the response holds
\* one item per text of the input, in the order of the input
CreateResolves ==
  /\ emb.provider = "openai"
  /\ \E r \in 1..Len(emb.requests) :
       /\ emb.requests[r].state = "sent"
       /\ LET data == [i \in 1..Len(emb.requests[r].input) |->
                         EmbeddingOf(emb.requests[r].input[i])]
          IN emb' = RequestFulfilled(emb, r, IF emb.requests[r].kind = "single"
                                      THEN data[1] ELSE data)
  /\ UNCHANGED nonEmbedVars

\* `await this.openai.embeddings.create(...)` rejects
CreateRejects ==
  /\ emb.provider = "openai"
  /\ \E r \in 1..Len(emb.requests) :
       /\ emb.requests[r].state = "sent"
       /\ emb' = RequestFails([emb EXCEPT !.requests[r].state = "failed"], "api error")
  /\ UNCHANGED nonEmbedVars

\* `await fetch(...)` resolves with an OK response: embedSingle goes on to
\* `await response.json()`
FetchResolvesOk ==
  /\ emb.provider = "ollama"
  /\ \E r \in 1..Len(emb.requests) :
       /\ emb.requests[r].state = "sent"
       /\ emb' = [emb EXCEPT !.requests[r].state = "responded"]
  /\ UNCHANGED nonEmbedVars

\* `await fetch(...)` resolves with a response that is not OK: embedSingle throws
FetchResolvesNotOk ==
  /\ emb.provider = "ollama"
  /\ \E r \in 1..Len(emb.requests) :
       /\ emb.requests[r].state = "sent"
       /\ emb' = RequestFails([emb EXCEPT !.requests[r].state = "failed"],
                          "Ollama embedding failed")
  /\ UNCHANGED nonEmbedVars

\* `await fetch(...)` rejects
FetchRejects ==
  /\ emb.provider = "ollama"
  /\ \E r \in 1..Len(emb.requests) :
       /\ emb.requests[r].state = "sent"
       /\ emb' = RequestFails([emb EXCEPT !.requests[r].state = "failed"], "fetch error")
  /\ UNCHANGED nonEmbedVars

\* `await response.json()` resolves: embedSingle returns data.embedding
JsonResolves ==
  /\ emb.provider = "ollama"
  /\ \E r \in 1..Len(emb.requests) :
       /\ emb.requests[r].state = "responded"
       /\ emb' = RequestFulfilled(emb, r, EmbeddingOf(emb.requests[r].input[1]))
  /\ UNCHANGED nonEmbedVars

\* EmbeddingService.chunkText(text) is called and returns
ChunkTextCall ==
  /\ emb.pc = "called"
  /\ emb' = [emb EXCEPT !.pc = "returned",
               !.chunks = EmbeddingChunkText(emb.texts[1], emb.maxTokensPerChunk)]
  /\ UNCHANGED nonEmbedVars

(***************************************************************************)
(* DocumentService.queryDocuments (services/document-service.ts), over any *)
(* VectorStore: the store is what answers the search.                      *)
(***************************************************************************)
QueryLimit == 5

\* the requests given to queryDocuments; max_tokens_given tells a supplied
\* max_tokens from an absent one, which reads as 0 (both are falsy); limit 0
\* stands for no property `limit` (QueryDocsRequest has none)
QueryRequests ==
  {request \in [question : {<< >>, <<"B">>},
                library : {"", "next"},
                version : {"14.2.2"},
                max_tokens_given : BOOLEAN,
                max_tokens : {0 - 1, 0, 1},
                include_citations : BOOLEAN,
                limit : {0, 1}] :
     ~ request.max_tokens_given => request.max_tokens = 0}

\* a DocumentResult with the optional metadata.url
ResultWithUrl(content, score, url) ==
  [content |-> content, score |-> score,
   metadata |-> [package |-> "next", version |-> "14.2.2", url |-> url]]

\* the results a store's search resolves with are drawn from these
ResultPool ==
  { ResultWithUrl(<<"A", "b", "c", "a", "B">>, 99, "https://nextjs.org/docs"),
    ResultWithUrl(<<"B">>, 50, Absent),
    ResultWithUrl(<<"c", "S">>, 50, "") }

\* Faulty variant of QuerySearchOptions: a limit of the request is passed on
QuerySearchOptionsOfRequest(request) ==
  [query |-> request.question,
   filter |-> [package |-> request.library, version |-> request.version],
   limit |-> IF request.limit # 0 THEN request.limit ELSE QueryLimit]

\* the argument of `this.vectorStore.search(...)`
QuerySearchOptions(request) ==
  [query |-> request.question,
   filter |-> [package |-> request.library, version |-> request.version],
   limit |-> QueryLimit]

\* String.prototype.slice(0, n): the first n characters, and for a negative
\* n the text without its last -n characters
SliceTo(text, n) ==
  LET end == IF n < 0 THEN Len(text) + n ELSE n
  IN IF end <= 0 THEN << >>
     ELSE IF end >= Len(text) THEN text ELSE SubSeq(text, 1, end)

\* truncateResults(results, maxTokens): maxChars = maxTokens / 0.25
TruncateResults(results, maxTokens) ==
  [i \in 1..Len(results) |->
     [results[i] EXCEPT !.content = SliceTo(@, maxTokens * 4)]]

\* Faulty variant of AddCitations: the url is cited even when there is none
AddCitationsAlways(results) ==
  [i \in 1..Len(results) |->
     [content |-> results[i].content, score |-> results[i].score,
      metadata |-> results[i].metadata,
      citations |-> <<results[i].metadata.url>>]]

\* addCitations(results): `result.metadata.url ? [result.metadata.url] : []`
AddCitations(results) ==
  [i \in 1..Len(results) |->
     [content |-> results[i].content, score |-> results[i].score,
      metadata |-> results[i].metadata,
      citations |-> IF Truthy(results[i].metadata.url)
                    THEN <<results[i].metadata.url>> ELSE << >>]]

\* queryDocuments() after its await, queryTime being Date.now() - startTime
QueryResponse(request, searchResults, queryTime) ==
  LET truncated == IF request.max_tokens # 0
                   THEN TruncateResults(searchResults, request.max_tokens)
                   ELSE searchResults
      results == IF request.include_citations THEN AddCitations(truncated)
                 ELSE truncated
  IN [results |-> results, total_results |-> Len(results),
      query_time_ms |-> queryTime]

NoRequest ==
  [question |-> << >>, library |-> "", version |-> "",
   max_tokens_given |-> FALSE, max_tokens |-> 0,
   include_citations |-> FALSE, limit |-> 0]

NoResponse == [results |-> << >>, total_results |-> 0, query_time_ms |-> 0]

ServiceIdle ==
  [pc |-> "idle", request |-> NoRequest, searches |-> << >>, found |-> << >>,
   response |-> NoResponse, error |-> "none"]

\* queryDocuments(request) up to its await: the search is handed to the store
QueryDocuments ==
  /\ svc.pc = "idle"
  /\ \E request \in QueryRequests :
       svc' = [svc EXCEPT !.pc = "searching", !.request = request,
                 !.searches = Append(@, QuerySearchOptions(request))]
  /\ UNCHANGED nonQueryVars

\* the store's search resolves: queryDocuments builds its response and returns
SearchResolves ==
  /\ svc.pc = "searching"
  /\ \E searchResults \in SeqsUpTo(ResultPool, MaxResults), queryTime \in {0, 1} :
       svc' = [svc EXCEPT !.pc = "resolved", !.found = searchResults,
                 !.response = QueryResponse(svc.request, searchResults, queryTime)]
  /\ UNCHANGED nonQueryVars

\* the store's search rejects: queryDocuments rejects with the same error
SearchRejects ==
  /\ svc.pc = "searching"
  /\ svc' = [svc EXCEPT !.pc = "rejected", !.error = "search failed"]
  /\ UNCHANGED nonQueryVars

(***************************************************************************)
(* The HTTP server (server/app.ts): the onRequest hook of the auth plugin, *)
(* the routes of routes/mcp.ts and routes/health.ts, the error handler.    *)
(* A header value is a sequence of pieces: names, "," and " ".             *)
(***************************************************************************)
\* config.auth.allowLocalhost
AllowLocalhost == TRUE

\* `ip === '127.0.0.1' || ip === '::1' || ip === '::ffff:127.0.0.1' ||
\* ip === 'localhost'`
IsLocalName(ip) == ip \in {"127.0.0.1", "::1", "::ffff:127.0.0.1", "localhost"}

\* `forwarded.split(',')[0]`: the pieces before the first ","
FirstOfList(header) ==
  LET at == {i \in 1..Len(header) : header[i] = ","}
  IN IF at = {} THEN header
     ELSE SubSeq(header, 1, (CHOOSE i \in at : \A j \in at : i <= j) - 1)

\* String.prototype.trim on pieces
TrimPieces(header) ==
  LET inked == {i \in 1..Len(header) : header[i] # " "}
  IN IF inked = {} THEN << >>
     ELSE SubSeq(header, CHOOSE i \in inked : \A j \in inked : i <= j,
                         CHOOSE i \in inked : \A j \in inked : i >= j)

\* the string a sequence of pieces spells, when it is one name
Spelled(pieces) == IF Len(pieces) = 1 THEN pieces[1] ELSE "<other>"

\* isRequestFromLocalhost(request); an empty x-forwarded-for is falsy, as an
\* absent one
IsRequestFromLocalhost(request) ==
  LET forwarded == request.forwarded
      ip == IF forwarded # << >> THEN Spelled(TrimPieces(FirstOfList(forwarded)))
            ELSE request.remoteAddress
  IN IsLocalName(ip)

\* `authHeader?.replace('Bearer ', '')`: the header without its first
\* "Bearer " piece; Absent for an absent header
BearerToken(authorization) ==
  IF authorization = << >> THEN Absent
  ELSE LET at == {i \in 1..Len(authorization) : authorization[i] = "Bearer "}
       IN IF at = {} THEN Spelled(authorization)
          ELSE LET i == CHOOSE x \in at : \A y \in at : x <= y
               IN Spelled(SubSeq(authorization, 1, i - 1)
                            \o SubSeq(authorization, i + 1, Len(authorization)))

\* the onRequest hook lets the request through (it returns without a reply)
AuthPasses(config, request) ==
  \/ request.url = "/healthz"
  \/ request.method = "GET" /\ request.url = "/v1/tools"
  \/ AllowLocalhost /\ IsRequestFromLocalhost(request)
  \/ ~ (~ Truthy(config.token) \/ BearerToken(request.authorization) # config.token)

\* request.url without its query string
PathOf(url) == IF url = "/healthz?probe" THEN "/healthz" ELSE url

\* the route Fastify finds for the request: the routes of mcpRoutes under
\* the prefix /v1 and of healthRoutes
RouteOf(request) ==
  LET path == PathOf(request.url)
  IN CASE request.method = "GET" /\ path = "/healthz" -> "healthz"
       [] request.method = "GET" /\ path = "/v1/tools" -> "tools"
       [] request.method = "POST" /\ path = "/v1/query-docs" -> "query-docs"
       [] request.method = "GET" /\ path = "/v1/packages" -> "packages"
       [] request.method = "GET" /\ path = "/v1/packages/next/versions" -> "versions"
       [] OTHER -> "none"

NoError == [message |-> "none", statusCode |-> 0]

NoHttpRequest ==
  [method |-> "GET", url |-> "/healthz", remoteAddress |-> "127.0.0.1",
   forwarded |-> << >>, authorization |-> << >>, indexed |-> FALSE]

\* a server built with AUTH_TOKEN = token; shared tells whether the error
\* handler plugin is wrapped in fastify-plugin, so that its setErrorHandler
\* reaches the routes
Server(token, shared) ==
  [pc |-> "listening", config |-> [token |-> token, shared |-> shared],
   request |-> NoHttpRequest, handlerRan |-> FALSE, statusCode |-> 200,
   error |-> NoError, sent |-> 0, body |-> "none"]

\* no server is in use
ServerIdle == [Server(Absent, TRUE) EXCEPT !.pc = "idle"]

\* the requests that reach the server; indexed tells whether the package
\* named in the url has documents in the store
HttpRequests ==
  [method : {"GET", "POST"},
   url : {"/healthz", "/healthz?probe", "/v1/tools", "/v1/query-docs",
          "/v1/packages", "/v1/packages/next/versions"},
   remoteAddress : {"127.0.0.1", "203.0.113.7"},
   forwarded : {<< >>, <<"192.168.1.1">>, <<" ", "127.0.0.1", ",", " ", "10.0.0.1">>},
   authorization : {<< >>, <<"Bearer ", "secret">>, <<"secret">>, <<"Bearer ", "wrong">>},
   indexed : BOOLEAN]

\* a request arrives
Receive ==
  /\ http.pc = "listening"
  /\ \E request \in HttpRequests :
       http' = [http EXCEPT !.pc = "onRequest", !.request = request]
  /\ UNCHANGED nonServerVars

\* the onRequest hook of the auth plugin: it returns, or it sends 401, after
\* which Fastify runs neither further hooks nor the handler
OnRequest ==
  /\ http.pc = "onRequest"
  /\ http' = IF AuthPasses(http.config, http.request)
             THEN [http EXCEPT !.pc = "routing"]
             ELSE [http EXCEPT !.pc = "sent", !.statusCode = 401, !.sent = 401,
                               !.body = "Unauthorized"]
  /\ UNCHANGED nonServerVars

\* no route matches: Fastify answers 404
NotFound ==
  /\ http.pc = "routing"
  /\ RouteOf(http.request) = "none"
  /\ http' = [http EXCEPT !.pc = "sent", !.statusCode = 404, !.sent = 404,
                          !.body = "Route not found"]
  /\ UNCHANGED nonServerVars

\* the handler of /healthz, /v1/tools, /v1/packages or /v1/query-docs runs:
\* it returns its payload, or the service it awaits rejects
Handle ==
  /\ http.pc = "routing"
  /\ RouteOf(http.request) \in {"healthz", "tools", "packages", "query-docs"}
  /\ \/ http' = [http EXCEPT !.pc = "sent", !.handlerRan = TRUE, !.sent = http.statusCode,
                             !.body = "payload"]
     \/ /\ RouteOf(http.request) \in {"packages", "query-docs"}
        /\ http' = [http EXCEPT !.pc = "failed", !.handlerRan = TRUE,
                                !.error = [message |-> "backend error", statusCode |-> 0]]
  /\ UNCHANGED nonServerVars

\* the handler of GET /packages/:package/versions: the store's listVersions
\* throws 'Package not found' for a package without documents, which
\* DocumentService.listVersions passes on and the handler answers with
\* `reply.code(404)` and a new Error; any other error is thrown again
HandleListVersions ==
  /\ http.pc = "routing"
  /\ RouteOf(http.request) = "versions"
  /\ \/ /\ http.request.indexed
        /\ http' = [http EXCEPT !.pc = "sent", !.handlerRan = TRUE,
                                !.sent = http.statusCode, !.body = "payload"]
     \/ /\ ~ http.request.indexed
        /\ http' = [http EXCEPT !.pc = "failed", !.handlerRan = TRUE, !.statusCode = 404,
                                !.error = [message |-> "Package not found",
                                           statusCode |-> 0]]
     \/ http' = [http EXCEPT !.pc = "failed", !.handlerRan = TRUE,
                             !.error = [message |-> "backend error", statusCode |-> 0]]
  /\ UNCHANGED nonServerVars

\* the error handler set by the plugin: `error.statusCode || 500`, then
\* `reply.status(statusCode).send(...)`
ErrorHandler ==
  /\ http.pc = "failed"
  /\ http.config.shared
  /\ LET statusCode == IF http.error.statusCode # 0 THEN http.error.statusCode ELSE 500
     IN http' = [http EXCEPT !.pc = "sent", !.statusCode = statusCode,
                             !.sent = statusCode,
                             !.body = IF statusCode >= 500 THEN "Internal Server Error"
                                      ELSE http.error.message]
  /\ UNCHANGED nonServerVars

\* the plugin is not wrapped: its handler is set in a context without
\* routes and Fastify's own handler answers, keeping a status already set
DefaultErrorHandler ==
  /\ http.pc = "failed"
  /\ ~ http.config.shared
  /\ LET statusCode == IF http.statusCode # 200 THEN http.statusCode
                       ELSE IF http.error.statusCode >= 400 THEN http.error.statusCode
                       ELSE 500
     IN http' = [http EXCEPT !.pc = "sent", !.statusCode = statusCode,
                             !.sent = statusCode, !.body = http.error.message]
  /\ UNCHANGED nonServerVars

(***************************************************************************)
(* The add-source command (src/unnamed/part_005): one page, scraped to the *)
(* same content on every run, chunked, embedded and stored chunk by chunk. *)
(* The command stores into `new MockVectorStore()`; its TODO names the     *)
(* store of the configuration, for which the Qdrant store stands here.     *)
(***************************************************************************)
IngestChunkSize == 1000
IngestOverlap == 200

\* the contents a page is scraped to: one of one chunk, one of two
IngestPages ==
  { <<"a", ".">>,
    <<"a", ".", "\n", "#", " ", "b", "\n", "a", ".">> }

\* `scraper.chunkDocument(document.content, {maxChunkSize: 1000, overlap: 200})`
IngestChunks(content) ==
  ChunkDocumentResult(content, [maxChunkSize |-> IngestChunkSize,
                                overlap |-> IngestOverlap])

\* the stores add-source may write to
IngestTargets == {"mock", "qdrant"}

IngestIdle ==
  [pc |-> "idle", target |-> "mock", content |-> << >>, chunks |-> << >>,
   run |-> 0, i |-> 0, uuids |-> {}, written |-> << >>, failed |-> FALSE]

\* the document given to addDocument for a chunk, uuid being the value of uuidv4()
IngestDocument(chunk, uuid) == Doc(uuid, chunk.content, "next", "14.2.2")

\* add-source starts: the page is scraped and chunked; a MockVectorStore is
\* constructed empty, the collection of a Qdrant store is the one that exists
AddSourceStart ==
  /\ ingest.pc \in {"ready", "done", "crashed"}
  /\ ingest.run < MaxRuns
  /\ ingest' = [ingest EXCEPT !.pc = "running", !.run = @ + 1, !.i = 1,
                  !.chunks = IngestChunks(ingest.content), !.failed = FALSE]
  /\ documents' = IF ingest.target = "mock" THEN << >> ELSE documents
  /\ UNCHANGED <<storeType, rows, points, ret>>
  /\ UNCHANGED nonStoreIngestVars

\* the loop body for the next chunk: embed resolves and addDocument stores
\* the chunk under a new uuid
AddSourceChunk ==
  /\ ingest.pc = "running"
  /\ ingest.i <= Len(ingest.chunks)
  /\ \E uuid \in (1..MaxUuids) \ ingest.uuids :
       LET doc == IngestDocument(ingest.chunks[ingest.i], uuid)
       IN /\ ingest' = [ingest EXCEPT !.i = @ + 1, !.uuids = @ \cup {uuid},
                          !.written = Append(@, [run |-> ingest.run, doc |-> doc])]
          /\ documents' = IF ingest.target = "mock" THEN Append(documents, doc)
                          ELSE documents
          /\ points' = IF ingest.target = "qdrant" THEN QdrantUpsertPoint(points, doc)
                       ELSE points
  /\ UNCHANGED <<storeType, rows, ret>>
  /\ UNCHANGED nonStoreIngestVars

\* embed or addDocument rejects: the catch of the page logs the error, the
\* rest of the page is not stored and the command ends
AddSourceFails ==
  /\ ingest.pc = "running"
  /\ ingest.i <= Len(ingest.chunks)
  /\ ingest' = [ingest EXCEPT !.pc = "done", !.failed = TRUE]
  /\ UNCHANGED storeVars
  /\ UNCHANGED nonStoreIngestVars

\* every chunk is stored: the raw document is saved and the command ends
AddSourceDone ==
  /\ ingest.pc = "running"
  /\ ingest.i > Len(ingest.chunks)
  /\ ingest' = [ingest EXCEPT !.pc = "done"]
  /\ UNCHANGED storeVars
  /\ UNCHANGED nonStoreIngestVars

\* the process dies between two chunks; the documents of a MockVectorStore
\* die with it
AddSourceCrash ==
  /\ ingest.pc = "running"
  /\ ingest.i <= Len(ingest.chunks)
  /\ ingest' = [ingest EXCEPT !.pc = "crashed"]
  /\ documents' = << >>
  /\ UNCHANGED <<storeType, rows, points, ret>>
  /\ UNCHANGED nonStoreIngestVars

(***************************************************************************)
(* PostgresVectorStore.initialize, statement by statement, on the same     *)
(* record as addDocuments: the client, its releases and the statements     *)
(* issued on it.                                                           *)
(***************************************************************************)
\* the statements of initialize() in order
PgInitStatements ==
  <<"CREATE EXTENSION", "CREATE TABLE", "CREATE INDEX package_version",
    "CREATE INDEX embedding">>

\* the schema after the k-th statement of initialize() succeeded
PgInitStatementResult(schema, k, dim) ==
  IF k = 1 THEN [err |-> "none", schema |-> [schema EXCEPT !.extension = TRUE]]
  ELSE IF k = 2 THEN PgCreateTable(schema, dim)
  ELSE IF k = 3 THEN PgCreateIndex(schema, "idx_documents_package_version")
  ELSE PgCreateIndex(schema, "idx_documents_embedding")

\* initialize() is called: `const client = await this.pool.connect()`
PgInitCall ==
  /\ tx.pc \in {"idle", "settled"}
  /\ tx' = [TxIdle EXCEPT !.pc = "init_connect", !.before = rows]
  /\ UNCHANGED <<storeType, documents, rows, points, ret, qb>>
  /\ UNCHANGED nonStepVars

\* pool.connect() resolved with a client
PgInitConnectOk ==
  /\ tx.pc = "init_connect"
  /\ tx' = [tx EXCEPT !.pc = "init_query", !.client = "held", !.i = 1]
  /\ UNCHANGED <<storeType, documents, rows, points, ret, qb>>
  /\ UNCHANGED nonStepVars

\* pool.connect() rejected: the call rejects before the try block
PgInitConnectFail ==
  /\ tx.pc = "init_connect"
  /\ tx' = [tx EXCEPT !.pc = "settled", !.result = "rejected", !.error = "connect"]
  /\ UNCHANGED <<storeType, documents, rows, points, ret, qb>>
  /\ UNCHANGED nonStepVars

\* the next `await client.query(...)` of the try block resolved
PgInitQueryOk ==
  /\ tx.pc = "init_query"
  /\ LET r == PgInitStatementResult(pgSchema, tx.i, EmbeddingDimension(apiKey))
     IN /\ r.err = "none"
        /\ pgSchema' = r.schema
  /\ tx' = [tx EXCEPT !.pc = IF tx.i = Len(PgInitStatements) THEN "init_finally"
                              ELSE "init_query",
              !.i = @ + 1, !.log = Append(@, PgInitStatements[tx.i])]
  /\ UNCHANGED <<storeType, documents, rows, points, ret, qb>>
  /\ UNCHANGED <<apiKey, qdCollection, calls>>
  /\ UNCHANGED <<factoryVars, serviceVars>>

\* Faulty variant of PgInitQueryFail that matches a try block without a
\* finally: the error leaves the call and the client is not released
PgInitQueryFailLeaks ==
  /\ tx.pc = "init_query"
  /\ tx' = [tx EXCEPT !.pc = "settled", !.caught = PgInitStatements[tx.i],
              !.error = PgInitStatements[tx.i], !.result = "rejected",
              !.log = Append(@, PgInitStatements[tx.i])]
  /\ UNCHANGED <<storeType, documents, rows, points, ret, qb>>
  /\ UNCHANGED nonStepVars

\* the next `await client.query(...)` rejected: catch logs and `throw error`
PgInitQueryFail ==
  /\ tx.pc = "init_query"
  /\ tx' = [tx EXCEPT !.pc = "init_finally", !.caught = PgInitStatements[tx.i],
              !.error = PgInitStatements[tx.i],
              !.log = Append(@, PgInitStatements[tx.i])]
  /\ UNCHANGED <<storeType, documents, rows, points, ret, qb>>
  /\ UNCHANGED nonStepVars

\* finally: `client.release()`, and the call settles
PgInitRelease ==
  /\ tx.pc = "init_finally"
  /\ tx' = [tx EXCEPT !.pc = "settled", !.client = "released", !.releases = @ + 1,
              !.result = IF tx.error = "none" THEN "resolved" ELSE "rejected"]
  /\ UNCHANGED <<storeType, documents, rows, points, ret, qb>>
  /\ UNCHANGED nonStepVars

(***************************************************************************)
(* QdrantVectorStore.listPackages and listVersions, request by request.    *)
(* The offset null is written 0; the ids of points are positive.  The      *)
(* backend answers a request with the next points by ascending id, as many *)
(* as it chooses up to the limit of the request, and with the id of the    *)
(* point that follows them, or null when none follows.                     *)
(***************************************************************************)
\* the points of the collections that are listed
ScrollPool == DocPool \cup {Doc(4, <<"d">>, "next", "14.2.2")}

ScrollIdle ==
  [pc |-> "idle", op |-> "none", packageName |-> "none", offset |-> 0,
   requests |-> << >>, inflight |-> 0, nexts |-> << >>, acc |-> << >>,
   result |-> "none", value |-> << >>, error |-> "none"]

\* the answer to client.scroll(collection, {limit, offset}) when the backend
\* returns n points
QdrantScrollPage(collection, offset, n) ==
  LET rest == ById({q \in collection : q.id >= offset})
  IN [points |-> Slice(rest, n),
      next_page_offset |-> IF Len(rest) > n THEN rest[n + 1].id ELSE 0]

\* the points that the requests of a call scroll over: listVersions filters
\* by package
ScrollCollection(op, packageName) ==
  IF op = "listVersions" THEN {q \in points : q.metadata.package = packageName}
  ELSE points

\* Faulty variant of ScrollContinues: one request and no loop
ScrollContinuesNever(offset) == FALSE

\* `while (offset !== null)`
ScrollContinues(offset) == offset # 0

\* listPackages(): the packageMap of the points seen, converted and sorted
PackageMapResult(pts) ==
  LET names == InsertionOrder([i \in 1..Len(pts) |-> pts[i].metadata.package])
      versionsOf(name) ==
        LET mine == SelectSeqBy(pts, [i \in 1..Len(pts) |->
                                        pts[i].metadata.package = name])
        IN InsertionOrder([i \in 1..Len(mine) |-> mine[i].metadata.version])
  IN QdrantSortPackages([i \in 1..Len(names) |->
        [name |-> names[i], versions |-> QdrantSortVersions(versionsOf(names[i]))]])

\* listVersions(): the versionMap of the points seen, converted and sorted
VersionMapResult(pts) ==
  LET vs == InsertionOrder([i \in 1..Len(pts) |-> pts[i].metadata.version])
      counted == [i \in 1..Len(vs) |->
                    [version |-> vs[i],
                     doc_count |-> Cardinality({j \in 1..Len(pts) :
                                                  pts[j].metadata.version = vs[i]})]]
  IN StableSort(counted, [i \in 1..Len(counted) |-> 0 - StrOrd(counted[i].version)]).seq

\* listPackages() or listVersions(packageName) is called: `let offset = null`
ScrollCall ==
  /\ scroll.pc = "idle"
  /\ \E op \in {"listPackages", "listVersions"}, packageName \in PackageInputs :
       /\ op = "listPackages" => packageName = "next"
       /\ scroll' = [ScrollIdle EXCEPT !.pc = "request", !.op = op,
                       !.packageName = packageName]
  /\ UNCHANGED nonScrollVars

\* `this.client.scroll(this.collectionName, {limit: 1000, offset, ...})`
ScrollRequest ==
  /\ scroll.pc = "request"
  /\ scroll' = [scroll EXCEPT !.pc = "await", !.requests = Append(@, scroll.offset),
                  !.inflight = @ + 1]
  /\ UNCHANGED nonScrollVars

\* the scroll resolved with a page: its points go to the map, its
\* next_page_offset becomes the offset, and the loop condition is tested
ScrollResponse ==
  /\ scroll.pc = "await"
  /\ LET collection == ScrollCollection(scroll.op, scroll.packageName)
         left == Cardinality({q \in collection : q.id >= scroll.offset})
         most == IF left < 1 THEN 1 ELSE IF left < ScrollLimit THEN left ELSE ScrollLimit
     IN \E n \in 1..most :
          LET scrollResult == QdrantScrollPage(collection, scroll.offset, n)
          IN scroll' = [scroll EXCEPT
                          !.pc = IF ScrollContinues(scrollResult.next_page_offset)
                                 THEN "request" ELSE "convert",
                          !.inflight = @ - 1,
                          !.acc = @ \o scrollResult.points,
                          !.nexts = Append(@, scrollResult.next_page_offset),
                          !.offset = scrollResult.next_page_offset]
  /\ UNCHANGED nonScrollVars

\* the scroll rejected: catch logs the error and `throw error`
ScrollRejects ==
  /\ scroll.pc = "await"
  /\ scroll' = [scroll EXCEPT !.pc = "settled", !.inflight = @ - 1,
                  !.result = "rejected", !.error = "scroll failed"]
  /\ UNCHANGED nonScrollVars

\* after the loop: the map is converted and sorted; listVersions throws
\* 'Package not found' when the map is empty
ScrollReturn ==
  /\ scroll.pc = "convert"
  /\ scroll' =
       IF scroll.op = "listPackages"
       THEN [scroll EXCEPT !.pc = "settled", !.result = "resolved",
                           !.value = PackageMapResult(scroll.acc)]
       ELSE IF scroll.acc = << >>
       THEN [scroll EXCEPT !.pc = "settled", !.result = "rejected",
                           !.error = "Package not found"]
       ELSE [scroll EXCEPT !.pc = "settled", !.result = "resolved",
                           !.value = VersionMapResult(scroll.acc)]
  /\ UNCHANGED nonScrollVars

(***************************************************************************)
(* Specifications                                                          *)
(***************************************************************************)
StepIdle == tx = TxIdle /\ qb = QbIdle

AuxIdle == BackendIdle /\ chunker = ChunkerIdle /\ emb = EmbeddingNone /\ svc = ServiceIdle /\ http = ServerIdle /\ ingest = IngestIdle /\ scroll = ScrollIdle

\* VectorStoreFactory in a process whose configuration names some store type
FactoryInit ==
  /\ FactoryIdle
  /\ storeType \in TypeInputs
  /\ documents = << >>
  /\ rows = {}
  /\ points = {}
  /\ ret = NoCall
  /\ StepIdle
  /\ AuxIdle

SpecFactory == FactoryInit /\ [][FactoryNext]_vars

\* The process runs one store, of the class the configuration selects
StoreInit ==
  /\ FactoryIdle
  /\ storeType \in {"mock", "postgres", "qdrant"}
  /\ documents = << >>
  /\ rows = {}
  /\ points = {}
  /\ ret = NoCall
  /\ StepIdle
  /\ AuxIdle

\* The caller takes the outcome of the settled call and goes on to its next call
Continue ==
  /\ storeType # "none"
  /\ ret # NoCall
  /\ ret' = NoCall
  /\ UNCHANGED <<storeType, documents, rows, points>>
  /\ UNCHANGED nonStoreVars

StoreNext ==
  \/ Continue
  \/ MockAddDocument
  \/ MockAddDocuments
  \/ MockSearch
  \/ MockListPackages
  \/ MockListVersions
  \/ MockDeletePackageVersion
  \/ PgAddDocument
  \/ PgAddDocuments
  \/ PgSearch
  \/ PgListPackages
  \/ PgListVersions
  \/ PgDeletePackageVersion
  \/ QdrantAddDocument
  \/ QdrantAddDocuments
  \/ QdrantSearch
  \/ QdrantListPackages
  \/ QdrantListVersions
  \/ QdrantDeletePackageVersion

Spec == StoreInit /\ [][StoreNext]_vars

\* One PostgresVectorStore and its initialize and addDocuments calls, one
\* after another
PgTxInit ==
  /\ FactoryIdle
  /\ storeType = "postgres"
  /\ documents = << >>
  /\ rows = {}
  /\ points = {}
  /\ ret = NoCall
  /\ StepIdle
  /\ AuxIdle

PgTxNext ==
  \/ TxCall
  \/ TxConnectOk
  \/ TxConnectFail
  \/ TxBeginOk
  \/ TxBeginFail
  \/ TxInsertOk
  \/ TxInsertFail
  \/ TxCommitOk
  \/ TxCommitFail
  \/ TxRollbackOk
  \/ TxRollbackFail
  \/ TxRelease
  \/ PgInitCall
  \/ PgInitConnectOk
  \/ PgInitConnectFail
  \/ PgInitQueryOk
  \/ PgInitQueryFail
  \/ PgInitRelease

SpecPgTx == PgTxInit /\ [][PgTxNext]_vars

\* One QdrantVectorStore and one addDocuments call
QdrantBatchInit ==
  /\ FactoryIdle
  /\ storeType = "qdrant"
  /\ documents = << >>
  /\ rows = {}
  /\ points = {}
  /\ ret = NoCall
  /\ StepIdle
  /\ AuxIdle

QdrantBatchNext ==
  \/ QbCall
  \/ QbUpsertSend
  \/ QbUpsertOk
  \/ QbUpsertFail
  \/ QbDone

SpecQdrantBatch == QdrantBatchInit /\ [][QdrantBatchNext]_vars

\* The three stores, each in its own process with the same configuration,
\* possibly on a database that an earlier process with another embedding
\* provider has initialized
BackendsInit ==
  /\ FactoryIdle
  /\ storeType = "each"
  /\ documents = << >>
  /\ rows = {}
  /\ points = {}
  /\ ret = NoCall
  /\ StepIdle
  /\ apiKey \in BOOLEAN
  /\ \E earlier \in {0, OllamaDimension, OpenAIDimension} :
       /\ pgSchema = IF earlier = 0 THEN NoSchema
                     ELSE PgInitializeResult(NoSchema, earlier).schema
       /\ qdCollection = [size |-> earlier]
  /\ calls = NoCalls
  /\ chunker = ChunkerIdle
  /\ emb = EmbeddingNone
  /\ svc = ServiceIdle
  /\ http = ServerIdle
  /\ ingest = IngestIdle
  /\ scroll = ScrollIdle

BackendsNext ==
  \/ EachInitialize
  \/ EachAddDocument
  \/ EachAddDocuments
  \/ EachDeletePackageVersion

SpecBackends == BackendsInit /\ [][BackendsNext]_vars

\* no store and no factory is in use
StoresIdle ==
  /\ FactoryIdle
  /\ storeType = "mock"
  /\ documents = << >>
  /\ rows = {}
  /\ points = {}
  /\ ret = NoCall
  /\ StepIdle
  /\ BackendIdle

\* One chunkDocument call on a DocumentScraper, for each content and options
ChunkerInit ==
  /\ StoresIdle
  /\ emb = EmbeddingNone
  /\ svc = ServiceIdle
  /\ http = ServerIdle
  /\ ingest = IngestIdle
  /\ scroll = ScrollIdle
  /\ \E content \in ContentInputs, options \in ChunkOptionInputs :
       chunker = [ChunkerIdle EXCEPT !.pc = "called", !.content = content,
                    !.options = options]

ChunkerNext == ChunkDocument

SpecChunker == ChunkerInit /\ [][ChunkerNext]_vars

\* the providers and the option maxTokensPerChunk a service is constructed
\* with (0: the option is absent)
Providers == {"openai", "ollama"}
MaxTokensOptions == {0, 1, 2}

\* One call of embed or batchEmbed on an EmbeddingService, and its requests
\* answered in any order
EmbeddingsInit ==
  /\ StoresIdle
  /\ chunker = ChunkerIdle
  /\ svc = ServiceIdle
  /\ http = ServerIdle
  /\ ingest = IngestIdle
  /\ scroll = ScrollIdle
  /\ \E provider \in Providers, option \in MaxTokensOptions :
       emb = EmbeddingIdle(provider, option)

EmbeddingsNext ==
  \/ Embed
  \/ BatchEmbed
  \/ CreateResolves
  \/ CreateRejects
  \/ FetchResolvesOk
  \/ FetchResolvesNotOk
  \/ FetchRejects
  \/ JsonResolves

SpecEmbeddings == EmbeddingsInit /\ [][EmbeddingsNext]_vars

\* One chunkText call on an EmbeddingService, for each text and option
EmbedChunkInit ==
  /\ StoresIdle
  /\ chunker = ChunkerIdle
  /\ svc = ServiceIdle
  /\ http = ServerIdle
  /\ ingest = IngestIdle
  /\ scroll = ScrollIdle
  /\ \E text \in SeqsUpTo(Letters, MaxText), option \in MaxTokensOptions :
       emb = [EmbeddingIdle("openai", option) EXCEPT !.pc = "called",
                !.op = "chunkText", !.texts = <<text>>]

EmbedChunkNext == ChunkTextCall

SpecEmbedChunk == EmbedChunkInit /\ [][EmbedChunkNext]_vars

\* One queryDocuments call on a DocumentService, its store answering the
\* search with any results or an error
QueryInit ==
  /\ StoresIdle
  /\ chunker = ChunkerIdle
  /\ emb = EmbeddingNone
  /\ svc = ServiceIdle
  /\ http = ServerIdle
  /\ ingest = IngestIdle
  /\ scroll = ScrollIdle

QueryNext ==
  \/ QueryDocuments
  \/ SearchResolves
  \/ SearchRejects

SpecQuery == QueryInit /\ [][QueryNext]_vars

\* One request to a server built with some AUTH_TOKEN
ServerInit ==
  /\ StoresIdle
  /\ chunker = ChunkerIdle
  /\ emb = EmbeddingNone
  /\ svc = ServiceIdle
  /\ ingest = IngestIdle
  /\ scroll = ScrollIdle
  /\ \E token \in {Absent, "", "secret"}, shared \in BOOLEAN :
       http = Server(token, shared)

ServerNext ==
  \/ Receive
  \/ OnRequest
  \/ NotFound
  \/ Handle
  \/ HandleListVersions
  \/ ErrorHandler
  \/ DefaultErrorHandler

SpecServer == ServerInit /\ [][ServerNext]_vars

\* add-source run up to MaxRuns times on one page, into one store
IngestInit ==
  /\ FactoryIdle
  /\ storeType \in IngestTargets
  /\ documents = << >>
  /\ rows = {}
  /\ points = {}
  /\ ret = NoCall
  /\ StepIdle
  /\ BackendIdle
  /\ chunker = ChunkerIdle
  /\ emb = EmbeddingNone
  /\ svc = ServiceIdle
  /\ http = ServerIdle
  /\ \E content \in IngestPages :
       ingest = [IngestIdle EXCEPT !.pc = "ready", !.target = storeType,
                   !.content = content]
  /\ scroll = ScrollIdle

IngestNext ==
  \/ AddSourceStart
  \/ AddSourceChunk
  \/ AddSourceFails
  \/ AddSourceDone
  \/ AddSourceCrash

SpecIngest == IngestInit /\ [][IngestNext]_vars

\* One listPackages or listVersions call on a QdrantVectorStore whose
\* collection holds some of the points of ScrollPool
ScrollInit ==
  /\ FactoryIdle
  /\ storeType = "qdrant"
  /\ documents = << >>
  /\ rows = {}
  /\ points \in SUBSET ScrollPool
  /\ ret = NoCall
  /\ StepIdle
  /\ AuxIdle

ScrollNext ==
  \/ ScrollCall
  \/ ScrollRequest
  \/ ScrollResponse
  \/ ScrollRejects
  \/ ScrollReturn

SpecScroll == ScrollInit /\ [][ScrollNext]_vars

\* C1: across any interleaving of create() calls at most one store is
\* constructed between two close()/reset() calls, and every create() call of
\* that period returns that same instance.
C1_SingleInstance ==
  /\ Cardinality(epochStores) <= 1
  /\ Cardinality(epochReturned) <= 1

(***************************************************************************)
(* Properties of the store operations (specification Spec)                 *)
(***************************************************************************)
\* the documents the store of the running class holds
Stored ==
  CASE storeType = "mock"     -> documents
    [] storeType = "postgres" -> ById(rows)
    [] storeType = "qdrant"   -> ById(points)
    [] OTHER                  -> << >>

StoredWith(packageName, version) ==
  {i \in 1..Len(Stored) : /\ Stored[i].metadata.package = packageName
                          /\ Stored[i].metadata.version = version}

StoredVersionsOf(packageName) ==
  {Stored[i].metadata.version :
     i \in {j \in 1..Len(Stored) : Stored[j].metadata.package = packageName}}

\* C4: every result of a search carries the package of the
\* package filter whenever one is given and the version of the version
\* filter whenever one is given.
C4_FilterGiven ==
  ret.op = "search" =>
    \A i \in 1..Len(ret.results) :
      /\ (ret.options.package # Absent =>
            ret.results[i].metadata.package = ret.options.package)
      /\ (ret.options.version # Absent =>
            ret.results[i].metadata.version = ret.options.version)

\* C5: the results of a search are in non-increasing order of score and
\* number at most options.limit, or at most 5 when no limit is given.
C5_SortedAndCapped ==
  ret.op = "search" =>
    /\ \A i \in 1..(Len(ret.results) - 1) :
         ret.results[i].score >= ret.results[i + 1].score
    /\ Len(ret.results) <= (IF ret.options.limit # 0 THEN ret.options.limit ELSE 5)

\* a search without a limit on a store of six documents returned five
\* results of different scores
C5_Witness ==
  /\ ret.op = "search"
  /\ ret.options.limit = 0
  /\ Len(Stored) = 6
  /\ Len(ret.results) = 5
  /\ ret.results[1].score > ret.results[5].score

\* does document d satisfy the filter of the last call, an absent filter
\* being satisfied by every document
SatisfiesGivenFilter(d) ==
  /\ (ret.options.package # Absent => d.metadata.package = ret.options.package)
  /\ (ret.options.version # Absent => d.metadata.version = ret.options.version)

IsReturned(d) ==
  \E i \in 1..Len(ret.results) :
    /\ ret.results[i].content = d.content
    /\ ret.results[i].metadata = d.metadata
    /\ ret.results[i].score > 0

\* C6 as stated: every stored document whose content contains the query
\* text, and which satisfies the filter if one is given, is in the result
\* of a search on the in-memory store with a score > 0, whatever else the
\* store holds.
C6_RoundTrip ==
  (storeType = "mock" /\ ret.op = "search") =>
    \A k \in 1..Len(documents) :
      (Includes(documents[k].content, ret.options.query)
         /\ SatisfiesGivenFilter(documents[k]))
        => IsReturned(documents[k])

\* the stored documents that a search with the options of the last call
\* selects: they pass the non-empty filters and contain the query, case
\* ignored
Selected ==
  {k \in 1..Len(documents) :
     /\ (ret.options.package \notin {Absent, ""} =>
           documents[k].metadata.package = ret.options.package)
     /\ (ret.options.version \notin {Absent, ""} =>
           documents[k].metadata.version = ret.options.version)
     /\ Includes(ToLowerCase(documents[k].content), ToLowerCase(ret.options.query))}

\* C6 amended: every stored document whose lower-cased content contains
\* the lower-cased query text, and which satisfies the filter if one is
\* given, is in the result of a search on the in-memory store with a
\* score > 0, provided that the search selects at most options.limit (5 when
\* no limit is given) stored documents.
C6_RoundTripWithinLimit ==
  (/\ storeType = "mock"
   /\ ret.op = "search"
   /\ Cardinality(Selected) <= (IF ret.options.limit # 0 THEN ret.options.limit ELSE 5)) =>
    \A k \in 1..Len(documents) :
      (Includes(ToLowerCase(documents[k].content), ToLowerCase(ret.options.query))
         /\ SatisfiesGivenFilter(documents[k]))
        => IsReturned(documents[k])

\* a search for "B" with a package filter returned the document "Ab" from a
\* store that holds other documents too
C6_Witness ==
  /\ storeType = "mock"
  /\ ret.op = "search"
  /\ ret.options.query = <<"B">>
  /\ ret.options.package = "next"
  /\ Len(documents) >= 3
  /\ \E k \in 1..Len(documents) :
       /\ documents[k].content = <<"A", "b">>
       /\ IsReturned(documents[k])
  /\ \E k \in 1..Len(documents) : documents[k].content # <<"A", "b">>

\* what listVersions(packageName) gives on the store as it is
ListVersionsNow(packageName) ==
  CASE storeType = "mock"     -> MockListVersionsResult(documents, packageName)
    [] storeType = "postgres" -> PgListVersionsResult(rows, packageName)
    [] storeType = "qdrant"   -> QdrantListVersionsResult(points, packageName)
    [] OTHER                  -> << >>

\* C7: deletePackageVersion(p, v) removes exactly the stored documents of
\* package p and version v, keeps every other document as it was, and raises
\* no error (also when nothing matches, when nothing changes); afterwards
\* listVersions(p) does not list v, and fails as not found (lists nothing)
\* exactly when no other version of p was stored.
C7_DeleteExact ==
  ret.op = "deletePackageVersion" =>
    LET Kept(d) == ~(d.metadata.package = ret.pkg /\ d.metadata.version = ret.ver)
        after == ListVersionsNow(ret.pkg)
    IN /\ ret.err = "none"
       /\ IF storeType = "mock"
          THEN Stored = SelectSeq(ret.before, Kept)
          ELSE Range(Stored) = {d \in Range(ret.before) : Kept(d)}
       /\ ((\A i \in 1..Len(ret.before) : Kept(ret.before[i])) =>
             Range(Stored) = Range(ret.before) /\ Len(Stored) = Len(ret.before))
       /\ \A i \in 1..Len(after) : after[i].version # ret.ver
       /\ (Len(after) = 0 <=>
             ~ \E i \in 1..Len(ret.before) :
                 /\ ret.before[i].metadata.package = ret.pkg
                 /\ ret.before[i].metadata.version # ret.ver)

\* a delete removed documents of one version and left another version of
\* the same package and another package in the store
C7_Witness ==
  /\ ret.op = "deletePackageVersion"
  /\ ret.pkg = "next"
  /\ ret.ver = "14.2.2"
  /\ Len(ret.before) > Len(Stored)
  /\ StoredWith("next", "14.2.1") # {}
  /\ StoredWith("react", "18.3.0") # {}

\* C8: listVersions(p) fails with 'Package not found' exactly when no
\* stored document has package p; otherwise it returns one entry per
\* distinct stored version of p, whose doc_count is the number of stored
\* documents of that package and version.
C8_ListVersions ==
  ret.op = "listVersions" =>
    /\ (ret.err = "Package not found" <=> StoredVersionsOf(ret.pkg) = {})
    /\ (ret.err # "Package not found" =>
          /\ ret.err = "none"
          /\ {ret.versions[i].version : i \in 1..Len(ret.versions)} = StoredVersionsOf(ret.pkg)
          /\ Len(ret.versions) = Cardinality(StoredVersionsOf(ret.pkg))
          /\ \A i \in 1..Len(ret.versions) :
               ret.versions[i].doc_count =
                 Cardinality(StoredWith(ret.pkg, ret.versions[i].version)))

\* listVersions returned two versions, one of them with several documents,
\* while another package is stored too
C8_Witness ==
  /\ ret.op = "listVersions"
  /\ ret.err = "none"
  /\ Len(ret.versions) = 2
  /\ \E i \in 1..2 : ret.versions[i].doc_count >= 2
  /\ StoredWith("react", "18.3.0") # {}

\* listVersions on a store nothing was added to fails with 'Package not found'
C8_WitnessUntouched ==
  /\ ret.op = "listVersions"
  /\ ret.err = "Package not found"
  /\ Len(Stored) = 0

\* C9: listPackages returns one entry per package that has a stored
\* document, and the versions of an entry are the distinct stored versions
\* of its package, each once.
C9_ListPackages ==
  ret.op = "listPackages" =>
    LET stored == {Stored[i].metadata.package : i \in 1..Len(Stored)}
    IN /\ {ret.packages[i].name : i \in 1..Len(ret.packages)} = stored
       /\ Len(ret.packages) = Cardinality(stored)
       /\ \A i \in 1..Len(ret.packages) :
            /\ Range(ret.packages[i].versions) = StoredVersionsOf(ret.packages[i].name)
            /\ Len(ret.packages[i].versions) =
                 Cardinality(StoredVersionsOf(ret.packages[i].name))

\* listPackages returned two packages, one with two versions, from a store
\* holding several documents of one package and version
C9_Witness ==
  /\ ret.op = "listPackages"
  /\ Len(ret.packages) = 2
  /\ \E i \in 1..2 : Len(ret.packages[i].versions) = 2
  /\ \E v \in Versions : Cardinality(StoredWith("next", v)) >= 2

\* C10: on every backend listPackages returns its entries by ascending
\* package name, each with its versions in descending order.
C10_ListPackagesSorted ==
  ret.op = "listPackages" =>
    /\ \A i \in 1..(Len(ret.packages) - 1) :
         StrOrd(ret.packages[i].name) < StrOrd(ret.packages[i + 1].name)
    /\ \A i \in 1..Len(ret.packages) :
         \A j \in 1..(Len(ret.packages[i].versions) - 1) :
           StrOrd(ret.packages[i].versions[j]) > StrOrd(ret.packages[i].versions[j + 1])

(***************************************************************************)
(* Properties of addDocuments on the database backends                     *)
(***************************************************************************)
\* C2: PostgresVectorStore.addDocuments is all-or-nothing.  When every
\* statement succeeds all documents of the call are stored.  When BEGIN, an
\* INSERT or the COMMIT fails, ROLLBACK is issued, no row of the call is
\* stored, the rows stored before are unchanged and the call rejects with
\* the error of the statement that failed.
C2_AllOrNothing ==
  tx.pc = "settled" =>
    /\ (tx.caught = "none" /\ tx.error # "connect") =>
         /\ tx.result = "resolved"
         /\ rows = tx.before \cup Range(tx.docs)
    /\ (tx.caught \in {"BEGIN", "INSERT", "COMMIT"}) =>
         /\ \E k \in 1..Len(tx.log) : tx.log[k] = "ROLLBACK"
         /\ rows = tx.before
         /\ tx.result = "rejected"
         /\ tx.error = tx.caught

\* C3: QdrantVectorStore.addDocuments sends its upserts one after another,
\* each with at most 100 documents, the batches being consecutive pieces of
\* the input in input order.  A call that resolves has sent ceil(n/100)
\* upserts covering documents 1..n once each.  When the k-th upsert fails
\* the call rejects, the documents of upserts 1..k-1 are stored and no
\* further upsert is sent.
C3_SequentialBatches ==
  LET sent == Len(qb.log)
  IN /\ qb.inflight <= 1
     /\ \A k \in 1..sent : Len(qb.log[k]) <= 100 /\ Len(qb.log[k]) >= 1
     /\ \A k \in 1..(sent - 1) : Len(qb.log[k]) = 100
     /\ \A k \in 1..sent : \A j \in 1..Len(qb.log[k]) : qb.log[k][j] = 100 * (k - 1) + j
     /\ (sent > 0 => 100 * (sent - 1) + Len(qb.log[sent]) <= qb.n)
     /\ (qb.result = "resolved" =>
           /\ sent = (qb.n + 99) \div 100
           /\ (sent > 0 => 100 * (sent - 1) + Len(qb.log[sent]) = qb.n)
           /\ {d.id : d \in points} = 1..qb.n)
     /\ (qb.result = "rejected" =>
           /\ qb.failedAt = sent
           /\ {d.id : d \in points} = 1..(100 * (sent - 1)))
     /\ (qb.pc = "settled" => qb.inflight = 0)

\* a call with 201 documents whose third upsert failed after two succeeded
C3_WitnessFailure ==
  /\ qb.pc = "settled"
  /\ qb.result = "rejected"
  /\ qb.n = 201
  /\ qb.failedAt = 3
  /\ Cardinality(points) = 200

\* a call with 150 documents resolved after two upserts
C3_Witness ==
  /\ qb.pc = "settled"
  /\ qb.result = "resolved"
  /\ qb.n = 150
  /\ Len(qb.log) = 2
  /\ Cardinality(points) = 150

(***************************************************************************)
(* Properties of the three stores side by side (specification SpecBackends)*)
(***************************************************************************)
\* what a listPackages result exposes, order set aside
PackagesExposed(result) ==
  {[name |-> result[i].name, versions |-> Range(result[i].versions)] :
     i \in 1..Len(result)}

\* C11: given the same calls, the three stores report the same outcome
\* (success or failure) for each call and expose the same packages through
\* listPackages and the same versions and document counts through
\* listVersions.
C11_BackendsAgree ==
  /\ (calls.mock = "none") = (calls.postgres = "none")
  /\ (calls.mock = "none") = (calls.qdrant = "none")
  /\ PackagesExposed(MockListPackagesResult(documents))
       = PackagesExposed(PgListPackagesResult(rows))
  /\ PackagesExposed(MockListPackagesResult(documents))
       = PackagesExposed(QdrantListPackagesResult(points))
  /\ \A p \in PackageInputs :
       /\ Range(MockListVersionsResult(documents, p)) = Range(PgListVersionsResult(rows, p))
       /\ Range(MockListVersionsResult(documents, p))
            = Range(QdrantListVersionsResult(points, p))

\* C12: every initialize() call succeeds, and one that follows an earlier
\* initialize() of the same store creates nothing: the schema and the
\* collection are as they were before it.
C12_InitializeIdempotent ==
  calls.op = "initialize" =>
    /\ calls.mock = "none" /\ calls.postgres = "none" /\ calls.qdrant = "none"
    /\ (calls.inits >= 2 => <<pgSchema, qdCollection>> = calls.schemaBefore)

\* a second initialize() on stores that hold documents
C12_Witness ==
  /\ calls.op = "initialize"
  /\ calls.inits = 2
  /\ pgSchema.table # 0
  /\ pgSchema.indexes # {}
  /\ qdCollection.size # 0
  /\ rows # {}
  /\ points # {}

\* C13: every document that a store holds has an embedding of the store's
\* dimension (1536 with the OpenAI key configured, 384 without), and an
\* addDocument or addDocuments call with an embedding of another length is
\* rejected and stores nothing.
C13_EmbeddingDimension ==
  /\ \A d \in Range(documents) \cup rows \cup points :
       d.embedding = EmbeddingDimension(apiKey)
  /\ (calls.op \in {"addDocument", "addDocuments"} /\ calls.mock = "none") =>
       \A k \in 1..Len(documents) : documents[k].embedding = EmbeddingDimension(apiKey)

\* C14: a stored document keeps its content, embedding and metadata for as
\* long as its id is in the store, and stored documents leave a store only
\* through deletePackageVersion.
C14_Immutable ==
  [][/\ \A d \in rows : (\E e \in rows' : e.id = d.id) => d \in rows'
     /\ \A d \in points : (\E e \in points' : e.id = d.id) => d \in points'
     /\ IF calls'.op = "deletePackageVersion"
        THEN Range(documents') \subseteq Range(documents)
        ELSE /\ {d.id : d \in rows} \subseteq {d.id : d \in rows'}
             /\ {d.id : d \in points} \subseteq {d.id : d \in points'}
             /\ Len(documents') >= Len(documents)
             /\ \A k \in 1..Len(documents) : documents'[k] = documents[k]]_vars

(***************************************************************************)
(* Properties of chunkDocument (specification SpecChunker)                 *)
(***************************************************************************)
\* C15: every chunk that chunkDocument returns has at most
\* maxChunkSize + overlap characters.
C15_ChunkSize ==
  chunker.pc = "returned" =>
    \A i \in 1..Len(chunker.chunks) :
      Len(chunker.chunks[i].content)
        <= chunker.options.maxChunkSize + chunker.options.overlap

\* the last word of a text: what follows its last white space
LastWord(text) ==
  LET at == {i \in 1..Len(text) : IsSpace(text[i])}
  IN IF at = {} THEN text
     ELSE SliceFrom(text, CHOOSE i \in at : \A j \in at : i >= j)

\* word occurs in text
Occurs(word, text) ==
  \E i \in 0..(Len(text) - Len(word)) : SubSeq(text, i + 1, i + Len(word)) = word

\* the first n characters of a text
Head_(text, n) == IF Len(text) <= n THEN text ELSE SubSeq(text, 1, n)

\* the chunks i and i + 1 of the result come from one section
AdjacentInSection(i) ==
  /\ i \in 1..(Len(chunker.chunks) - 1)
  /\ chunker.chunks[i].sectionIndex = chunker.chunks[i + 1].sectionIndex

\* C16: with overlap > 0, for two adjacent chunks of one section the last
\* word of the earlier chunk's final `overlap` characters occurs within the
\* first `overlap` characters of the later chunk.
C16_OverlapSharesWord ==
  chunker.pc = "returned" /\ chunker.options.overlap > 0 =>
    \A i \in 1..Len(chunker.chunks) :
      AdjacentInSection(i) =>
        Occurs(LastWord(SliceLast(chunker.chunks[i].content, chunker.options.overlap)),
               Head_(chunker.chunks[i + 1].content, chunker.options.overlap))

\* a section was split with overlap > 0 after a chunk longer than the
\* overlap, whose final `overlap` characters hold a sentence end and a word
C16_Witness ==
  /\ chunker.pc = "returned"
  /\ chunker.options.overlap > 0
  /\ \E i \in 1..Len(chunker.chunks) :
       /\ AdjacentInSection(i)
       /\ Len(chunker.chunks[i].content) > chunker.options.overlap
       /\ LastIndexOfSentenceEnd(
            SliceLast(chunker.chunks[i].content, chunker.options.overlap)) > 0
       /\ chunker.chunks[i + 1].content # chunker.chunks[i].content

(***************************************************************************)
(* Properties of the EmbeddingService (SpecEmbeddings, SpecEmbedChunk)     *)
(***************************************************************************)
\* C17: batchEmbed(texts) returns exactly one vector per input text, result
\* i being the embedding of texts[i], on both providers and whatever the
\* order in which the per-text requests of the local provider complete.
C17_BatchEmbedOrder ==
  emb.op = "batchEmbed" /\ emb.result.kind = "resolved" =>
    /\ Len(emb.result.value) = Len(emb.texts)
    /\ \A i \in 1..Len(emb.texts) : emb.result.value[i] = EmbeddingOf(emb.texts[i])

\* batchEmbed on the local provider has returned the vectors of texts that
\* differ, after a later request completed before an earlier one
C17_Witness ==
  /\ emb.op = "batchEmbed"
  /\ emb.provider = "ollama"
  /\ emb.result.kind = "resolved"
  /\ \E i, j \in 1..Len(emb.requests) :
       /\ i < j
       /\ emb.requests[i].at > emb.requests[j].at
       /\ emb.texts[i] # emb.texts[j]

\* C18: when text.length / 4 exceeds maxTokensPerChunk, every sub-chunk that
\* chunkText produces has at most 4 * maxTokensPerChunk characters.
C18_SubChunksUnderLimit ==
  emb.pc = "returned" /\ Len(emb.texts[1]) > CharsPerToken * emb.maxTokensPerChunk =>
    \A i \in 1..Len(emb.chunks) :
      Len(emb.chunks[i]) <= CharsPerToken * emb.maxTokensPerChunk

\* the texts of the requests sent so far, in the order of sending
RECURSIVE Submitted(_)
Submitted(requests) ==
  IF requests = << >> THEN << >>
  ELSE requests[1].input \o Submitted(Tail(requests))

\* C19: when a request of embed or batchEmbed fails, the call rejects with
\* that failure (the first one, if several fail), and every text of the call
\* is submitted to the backend once, never again.
C19_FailurePropagates ==
  emb.pc = "running" =>
    /\ (\E r \in 1..Len(emb.requests) : emb.requests[r].state = "failed") =>
         /\ emb.failures # << >>
         /\ emb.result = [kind |-> "rejected", value |-> << >>,
                          error |-> emb.failures[1]]
    /\ Submitted(emb.requests) = IF emb.op = "embed" THEN emb.chunks ELSE emb.texts

\* a request of a call with several requests has failed after another was
\* fulfilled, and the call is rejected
C19_Witness ==
  /\ emb.pc = "running"
  /\ emb.result.kind = "rejected"
  /\ \E r, q \in 1..Len(emb.requests) :
       /\ emb.requests[r].state = "failed"
       /\ emb.requests[q].state = "fulfilled"

(***************************************************************************)
(* Properties of DocumentService.queryDocuments (specification SpecQuery)  *)
(***************************************************************************)
\* C20: a queryDocuments(request) call invokes the store's search exactly
\* once, with query = request.question, filter = {package: request.library,
\* version: request.version} and limit 5 whatever the request holds; the
\* response's total_results is the length of its results, hence at most 5
\* when the store returned at most `limit` results.
C20_QueryDocuments ==
  /\ svc.pc # "idle" =>
       svc.searches = << [query |-> svc.request.question,
                          filter |-> [package |-> svc.request.library,
                                      version |-> svc.request.version],
                          limit |-> 5] >>
  /\ svc.pc = "resolved" =>
       /\ svc.response.total_results = Len(svc.response.results)
       /\ Len(svc.found) <= svc.searches[1].limit => svc.response.total_results <= 5

\* a request with max_tokens, include_citations and a limit of its own was
\* answered from five results of the store
C20_Witness ==
  /\ svc.pc = "resolved"
  /\ svc.request.max_tokens # 0
  /\ svc.request.include_citations
  /\ svc.request.limit = 1
  /\ Len(svc.found) = 5
  /\ svc.response.total_results = 5

\* text is the first characters of whole
IsPrefix(text, whole) ==
  Len(text) <= Len(whole) /\ text = SubSeq(whole, 1, Len(text))

\* C21: whenever the request supplies max_tokens, whatever its value, every
\* result content that queryDocuments returns is a prefix of the content the
\* store returned and has at most 4 * max_tokens characters.
C21_Truncated ==
  svc.pc = "resolved" /\ svc.request.max_tokens_given =>
    \A i \in 1..Len(svc.response.results) :
      /\ IsPrefix(svc.response.results[i].content, svc.found[i].content)
      /\ Len(svc.response.results[i].content) <= 4 * svc.request.max_tokens

C23_NotFound ==
  /\ http.pc = "sent"
  /\ RouteOf(http.request) = "versions"
  /\ http.handlerRan
  /\ ~ http.request.indexed
  /\ http.error.message = "Package not found"
  => http.sent = 404

\* the connection's peer address is not a loopback address
IsRemote(request) == request.remoteAddress \notin {"127.0.0.1", "::1", "::ffff:127.0.0.1"}

\* the Authorization header of the request holds the configured token, with
\* or without the scheme before it
PresentsToken(request, token) ==
  /\ token \notin {Absent, ""}
  /\ request.authorization \in {<<"Bearer ", token>>, <<token>>}

\* C24: a request to a route other than /healthz and GET /v1/tools whose
\* connection does not come from the local host reaches a handler only if
\* its bearer token is the configured AUTH_TOKEN, and is answered 401
\* otherwise, whatever headers it carries and also with no AUTH_TOKEN.
C24_RemoteNeedsToken ==
  /\ http.pc \in {"routing", "failed", "sent"}
  /\ PathOf(http.request.url) # "/healthz"
  /\ ~ (http.request.method = "GET" /\ PathOf(http.request.url) = "/v1/tools")
  /\ IsRemote(http.request)
  /\ ~ PresentsToken(http.request, http.config.token)
  => /\ ~ http.handlerRan
     /\ http.pc = "sent"
     /\ http.sent = 401

(***************************************************************************)
(* Properties of add-source (specification SpecIngest)                     *)
(***************************************************************************)
\* the documents in the store add-source writes to, as stored records
IngestStored ==
  IF ingest.target = "mock"
  THEN {[at |-> i, doc |-> documents[i]] : i \in 1..Len(documents)}
  ELSE {[at |-> 0, doc |-> q] : q \in points}

IssuesStatements ==
  {"begin", "insert", "commit", "rollback", "init_query"}

\* C26: the client that initialize or addDocuments acquired is released
\* exactly once before the call settles, whether every statement succeeded,
\* a statement failed or the ROLLBACK failed; while statements are issued
\* the client is held and not yet released, and a call whose connect failed
\* has no client to release.
C26_ClientReleasedOnce ==
  /\ tx.pc \in IssuesStatements \cup {"finally", "init_finally"} =>
       tx.client = "held" /\ tx.releases = 0
  /\ tx.pc \in {"connect", "init_connect"} => tx.client = "none" /\ tx.releases = 0
  /\ tx.pc = "settled" =>
       IF tx.error = "connect"
       THEN tx.client = "none" /\ tx.releases = 0 /\ tx.log = << >>
       ELSE tx.client = "released" /\ tx.releases = 1
  /\ tx.client # "held" => tx.pc \notin IssuesStatements

\* an addDocuments call whose INSERT failed and whose ROLLBACK failed too has
\* settled with its client released once
C26_Witness ==
  /\ tx.pc = "settled"
  /\ tx.caught = "INSERT"
  /\ tx.error = "ROLLBACK"
  /\ tx.releases = 1
  /\ tx.client = "released"

(***************************************************************************)
(* Properties of the scroll loop (specification SpecScroll)                *)
(***************************************************************************)
\* C27: listPackages and listVersions request their pages one at a time,
\* the first with offset null and each later one with the next_page_offset
\* of the page before, which is not null; no offset is requested twice; no
\* request follows a page whose next_page_offset is null; and the call that
\* resolves has collected every point of the collection once and returns
\* what the listing of the whole collection is.
C27_ScrollPages ==
  LET sent == Len(scroll.requests)
      got == Len(scroll.nexts)
      collection == ScrollCollection(scroll.op, scroll.packageName)
  IN /\ scroll.inflight <= 1
     /\ sent = got + scroll.inflight
                + (IF scroll.error = "scroll failed" THEN 1 ELSE 0)
     /\ sent >= 1 => scroll.requests[1] = 0
     /\ \A k \in 2..sent :
          scroll.requests[k] = scroll.nexts[k - 1] /\ scroll.nexts[k - 1] # 0
     /\ \A j, k \in 1..sent : j # k => scroll.requests[j] # scroll.requests[k]
     /\ (got >= 1 /\ scroll.nexts[got] = 0) =>
          scroll.pc \in {"convert", "settled"} /\ sent = got
     /\ scroll.result = "resolved" =>
          /\ scroll.nexts[got] = 0
          /\ Range(scroll.acc) = collection
          /\ Len(scroll.acc) = Cardinality(collection)
          /\ scroll.value = IF scroll.op = "listPackages"
                            THEN QdrantListPackagesResult(points)
                            ELSE QdrantListVersionsResult(points, scroll.packageName)

\* a listPackages call resolved after three requests
C27_Witness ==
  /\ scroll.pc = "settled"
  /\ scroll.result = "resolved"
  /\ scroll.op = "listPackages"
  /\ Len(scroll.requests) = 3
  /\ Len(scroll.value) = 2

(***************************************************************************)
(* Properties of the factory's cache (specification SpecFactory)           *)
(***************************************************************************)
\* the stores whose initialize() has not resolved
NotInitialized == {"initializing", "failed"}

\* C28: the cached instance and every store that a create() call returned
\* are stores whose initialize() resolved; a store whose initialize()
\* rejected is not cached, the call that constructed it rejected, and a
\* caller that finds no instance cached constructs a store again.
C28_CachedAfterInitialize ==
  /\ instance # 0 => stores[instance] \notin NotInitialized
  /\ \A c \in Callers :
       fres[c].kind = "returned" => stores[fres[c].store] \notin NotInitialized
  /\ \A c \in Callers :
       (fpc[c] = "idle" /\ instance = 0 /\ StoreClass(storeType) # "none"
          /\ Len(stores) < MaxStores) => ENABLED CreateConstruct(c)
  /\ \A c \in Callers :
       (fpc[c] = "idle" /\ instance = 0 /\ StoreClass(storeType) = "none") =>
          ENABLED CreateUnsupported(c) /\ ~ ENABLED CreateCached(c)

\* a store's initialize() failed, and a later create() constructed and
\* cached another store
C28_Witness ==
  \E s, t \in 1..Len(stores) :
    /\ s < t
    /\ stores[s] = "failed"
    /\ stores[t] = "initialized"
    /\ instance = t
    /\ \E c \in Callers : fres[c] = Returned(t)

\* C29: create() never returns a store on which close() has been started:
\* the store that a create() call returns is neither closing nor closed
\* when the call returns.
C29_NeverReturnsClosing ==
  [][\A c \in Callers :
       (CreateCached(c) \/ CreateInitialized(c)) =>
          stores'[fres'[c].store] \notin {"closing", "closed"}]_vars

(***************************************************************************)
(* Properties of chunkDocument: the text kept (specification SpecChunker)  *)
(***************************************************************************)
\* the characters of a text that are not white space, in order
NonSpace(text) ==
  SelectSeqBy(text, [i \in 1..Len(text) |-> ~ IsSpace(text[i])])

\* the contents of the chunks one after another
RECURSIVE ChunkContents(_)
ChunkContents(chunks) ==
  IF chunks = << >> THEN << >>
  ELSE Head(chunks).content \o ChunkContents(Tail(chunks))

\* the characters of a can be found in b in the order they have in a
RECURSIVE IsSubsequence(_, _)
IsSubsequence(a, b) ==
  IF a = << >> THEN TRUE
  ELSE IF b = << >> THEN FALSE
  ELSE IF Head(a) = Head(b) THEN IsSubsequence(Tail(a), Tail(b))
  ELSE IsSubsequence(a, Tail(b))

\* C30: chunkDocument loses no text: the characters of the content that are
\* not white space are found, in document order, in the chunks taken in the
\* order they are returned.
C30_NoTextLost ==
  chunker.pc = "returned" =>
    IsSubsequence(NonSpace(chunker.content), NonSpace(ChunkContents(chunker.chunks)))

====
